---- MODULE Spec2Model ----
(***************************************************************************)
(* Model of the Semgrep scanner microservice (semgrep-service/main.py).    *)
(*                                                                         *)
(* scan() is an `async def` without any await: inside one server process   *)
(* a request runs from its first line to its response without yielding.    *)
(* The handler is nevertheless modelled step by step (pc), one step per    *)
(* system call that touches the shared filesystem or the engine process,   *)
(* because several server processes share /tmp.                            *)
(*                                                                         *)
(* Text is modelled by TLA+ strings, paths by the strings the code sees.   *)
(* The filesystem is a set of directories and a map from file paths to     *)
(* contents, both keyed by resolved paths (sequences of components, the    *)
(* root being << >>).  The content of a file is its bytes, a sequence of   *)
(* numbers in 0..255.                                                      *)
(***************************************************************************)
EXTENDS Integers, Sequences, FiniteSets, TLC

VARIABLES
    fs,           \* the filesystem: [dirs: set of paths, files: path -> content]
    rulesExists,  \* whether RULES_PATH (rules.yml next to main.py) exists
    pc,           \* pc[w]: position of worker w inside scan()
    req,          \* req[w]: the ScanRequest being handled
    tmpdir,       \* tmpdir[w]: the string returned by mkdtemp, or NoDir
    widx,         \* widx[w]: index of the next FileInput to write
    created,      \* created[w]: resolved paths created while writing the files
    proc,         \* proc[w]: the engine subprocess of this request
    parsed,       \* parsed[w]: json.loads was called on the engine's stdout
    released,     \* released[w]: "no", "ok" (rmtree met no error), "failed"
    resp,         \* resp[w]: the response (or HTTP error) of the request
    nin,          \* input of the result normalizer taken alone
    nout,         \* its output, or Pending
    health,       \* the health operation: position, version query, response
    mk,           \* mk[w]: the calls Path.mkdir of worker w has still to make
    fd,           \* fd[w]: the file write_text of worker w has open
    rm            \* rm[w]: the directories rmtree of worker w is inside of

scanVars == <<fs, rulesExists, pc, req, tmpdir, widx, created, proc,
              parsed, released, resp, mk, fd, rm>>

vars == <<fs, rulesExists, pc, req, tmpdir, widx, created, proc,
          parsed, released, resp, nin, nout, health, mk, fd, rm>>

(***************************************************************************)
(* Bounds of the model                                                     *)
(***************************************************************************)
\* most FileInput records in one request
MaxFiles == 2
\* most result records in one engine output
MaxResults == 2

(***************************************************************************)
(* Program constants                                                       *)
(***************************************************************************)
\* result.stderr[:500]
StderrLimit == 500
\* result.stdout[:200]
StdoutLimit == 200

Workers == {"w1", "w2"}

NoDir == ""

(***************************************************************************)
(* Strings (Python str operations used by the code)                        *)
(***************************************************************************)
Min(a, b) == IF a <= b THEN a ELSE b

\* s.startswith(p)
StartsWith(s, p) == Len(s) >= Len(p) /\ SubSeq(s, 1, Len(p)) = p

\* Text is held one model character for each ASCII character; a character
\* outside ASCII, and the escape character U+001B itself, is held as the
\* escape character followed by the six hexadecimal digits of its code point,
\* so e with an acute accent (U+00E9) is U("0000E9"). Len, SubSeq and Drop
\* count model characters; StrLen and Take count characters as Python's
\* len(s) and s[:n] do.
Esc == ""
U(hex) == Esc \o hex

\* the number of model characters of the character that begins at i in s
CharWidth(s, i) == Min(IF SubSeq(s, i, i) = Esc THEN 7 ELSE 1, Len(s) - i + 1)

\* a character of s begins at position k: k is not one of the six digits
\* that follow an escape character
IsCharStart(s, k) ==
    \A d \in 1..6 : k - d < 1 \/ SubSeq(s, k - d, k - d) # Esc

\* the number of characters of s between positions i and j, where a
\* character begins at i and one ends at j: each escape character stands
\* with its six digits for one character
CharCount(s, i, j) ==
    (j - i + 1) - 6 * Cardinality({k \in i..j : SubSeq(s, k, k) = Esc})

\* len(s)
StrLen(s) == CharCount(s, 1, Len(s))

\* the position at which the n characters of s that begin at i end (all that
\* are left when there are fewer): the n model characters from i on hold at
\* most n characters, which are counted together; the rest is taken from
\* what follows them
RECURSIVE CharsEnd(_, _, _)
CharsEnd(s, i, n) ==
    IF n = 0 \/ i > Len(s) THEN i - 1
    ELSE IF Len(s) - i + 1 <= n THEN Len(s)
    ELSE IF n < 7 THEN CharsEnd(s, i + CharWidth(s, i), n - 1)
    ELSE LET j == i + n - 1
             e == CHOOSE k \in (j - 6)..j :
                      /\ IsCharStart(s, k + 1)
                      /\ \A m \in (k + 1)..j : ~IsCharStart(s, m + 1)
         IN CharsEnd(s, e + 1, n - CharCount(s, i, e))

\* s[:n] for n >= 0
Take(s, n) == SubSeq(s, 1, CharsEnd(s, 1, n))

\* s without its first n model characters
Drop(s, n) == SubSeq(s, n + 1, Len(s))

\* s.lstrip(c) for a one-character c
RECURSIVE LStrip(_, _)
LStrip(s, c) ==
    IF Len(s) > 0 /\ SubSeq(s, 1, 1) = c THEN LStrip(Drop(s, 1), c) ELSE s

\* n copies of the string c
RECURSIVE Rep(_, _)
Rep(c, n) ==
    IF n = 0 THEN ""
    ELSE IF n % 2 = 0 THEN LET h == Rep(c, n \div 2) IN h \o h
    ELSE Rep(c, n - 1) \o c

\* the characters U+0001..U+005F and U+0061..U+007F in the order of their
\* code points; the grave accent (U+0060), the escape character and the
\* characters from U+0080 on are written U(hex)
AsciiLow ==
    "\t\n\f" \o "\r" \o ""
    \o " !\"#$%&'()*+,-./0123456789:;<=>?@ABCDEFGHIJKLMNOPQRSTUVWXYZ[\\]^_"

AsciiHigh == "abcdefghijklmnopqrstuvwxyz{|}~"

HexDigits == "0123456789ABCDEF"

HexVal(d) == (CHOOSE i \in 1..16 : SubSeq(HexDigits, i, i) = d) - 1

\* ord(c) of one character of a string
Ord(c) ==
    IF Len(c) = 1
    THEN IF \E i \in 1..95 : SubSeq(AsciiLow, i, i) = c
         THEN CHOOSE i \in 1..95 : SubSeq(AsciiLow, i, i) = c
         ELSE 96 + (CHOOSE i \in 1..31 : SubSeq(AsciiHigh, i, i) = c)
    ELSE LET H(k) == HexVal(SubSeq(c, k + 1, k + 1))
         IN ((((H(1) * 16 + H(2)) * 16 + H(3)) * 16 + H(4)) * 16 + H(5)) * 16 + H(6)

\* a surrogate code point (U+D800..U+DFFF) has no UTF-8 encoding
IsSurrogate(cp) == cp \in 55296..57343

\* the UTF-8 bytes of one code point
Utf8(cp) ==
    IF cp < 128 THEN <<cp>>
    ELSE IF cp < 2048 THEN <<192 + (cp \div 64), 128 + (cp % 64)>>
    ELSE IF cp < 65536
    THEN <<224 + (cp \div 4096), 128 + ((cp \div 64) % 64), 128 + (cp % 64)>>
    ELSE <<240 + (cp \div 262144), 128 + ((cp \div 4096) % 64),
           128 + ((cp \div 64) % 64), 128 + (cp % 64)>>

\* str.encode() raises UnicodeEncodeError on a string that holds a surrogate
Encodable(s) ==
    \A k \in 1..Len(s) :
        (IsCharStart(s, k) /\ SubSeq(s, k, k) = Esc)
            => ~IsSurrogate(Ord(SubSeq(s, k, k + CharWidth(s, k) - 1)))

\* the bytes write_text writes for an encodable string: its UTF-8 encoding
\* (the newline is left as it is)
RECURSIVE Encode(_)
Encode(s) ==
    IF s = "" THEN << >>
    ELSE Utf8(Ord(SubSeq(s, 1, CharWidth(s, 1))))
             \o Encode(SubSeq(s, CharWidth(s, 1) + 1, Len(s)))

(***************************************************************************)
(* Paths (pathlib.PurePosixPath) and the filesystem                        *)
(***************************************************************************)
\* the components of s between "/" separators, from position i on; cur is the
\* component being read
RECURSIVE SplitFrom(_, _, _, _)
SplitFrom(s, i, cur, acc) ==
    IF i > Len(s) THEN (IF cur = "" THEN acc ELSE Append(acc, cur))
    ELSE IF SubSeq(s, i, i) = "/"
         THEN SplitFrom(s, i + 1, "", IF cur = "" THEN acc ELSE Append(acc, cur))
         ELSE SplitFrom(s, i + 1, cur \o SubSeq(s, i, i), acc)

\* pathlib drops empty and "." components and keeps ".."
Parts(s) == SelectSeq(SplitFrom(s, 1, "", << >>), LAMBDA c : c # ".")

IsAbsolute(s) == StartsWith(s, "/")

\* Path(base) / p : an absolute p replaces the base
JoinPath(base, p) == IF IsAbsolute(p) THEN Parts(p) ELSE Parts(base) \o Parts(p)

Front(sq) == SubSeq(sq, 1, Len(sq) - 1)

\* Path.parent is lexical: it drops the last component, whatever it is
ParentOf(lex) == IF lex = << >> THEN << >> ELSE Front(lex)

IsPrefix(p, q) == Len(p) <= Len(q) /\ SubSeq(q, 1, Len(p)) = p

EmptyFiles == [p \in {} |-> ""]

InitFs == [dirs |-> {<< >>, <<"tmp">>}, files |-> EmptyFiles]

\* The kernel's resolution of the lexical path `rest` from directory `cur`:
\* every component must be an existing directory; ".." is the parent
RECURSIVE ResolveWalk(_, _, _, _)
ResolveWalk(dirs, files, cur, rest) ==
    IF rest = << >> THEN [ok |-> TRUE, at |-> cur, err |-> ""]
    ELSE LET c == Head(rest) IN
         IF c = ".." THEN ResolveWalk(dirs, files, ParentOf(cur), Tail(rest))
         ELSE IF Append(cur, c) \in dirs
              THEN ResolveWalk(dirs, files, Append(cur, c), Tail(rest))
              ELSE [ok |-> FALSE, at |-> cur,
                    err |-> IF Append(cur, c) \in DOMAIN files
                            THEN "NotADirectoryError"
                            ELSE "FileNotFoundError"]

Resolve(f, lex) == ResolveWalk(f.dirs, f.files, << >>, lex)

\* the directory open() finds for the parent of the lexical path
ResolveParent(f, lex) == Resolve(f, ParentOf(lex))

\* Path.is_dir(): the path resolves to a directory; any error is False
IsDir(f, lex) == Resolve(f, lex).ok

\* os.mkdir(path), one system call: the parent must resolve to a directory
\* and the name must be new
OsMkdir(f, lex) ==
    LET rs == ResolveParent(f, lex)
        name == IF lex = << >> THEN ".." ELSE lex[Len(lex)]
        target == Append(rs.at, name)
        Failed(e) == [ok |-> FALSE, err |-> e, fs |-> f, made |-> {}]
    IN IF ~rs.ok THEN Failed(rs.err)
       ELSE IF name = ".." \/ target \in f.dirs \/ target \in DOMAIN f.files
       THEN Failed("FileExistsError")
       ELSE [ok |-> TRUE, err |-> "",
             fs |-> [f EXCEPT !.dirs = @ \cup {target}], made |-> {target}]

\* a call Path.mkdir has still to make: os.mkdir(path) on behalf of
\* mkdir(parents=..., exist_ok=True), or the is_dir() that follows an error
MkdirCall(path, parents) ==
    [op |-> "mkdir", path |-> path, parents |-> parents, err |-> ""]

IsDirCall(path, err) ==
    [op |-> "is_dir", path |-> path, parents |-> FALSE, err |-> err]

\* One system call of Path.mkdir(parents=True, exist_ok=True), the first of
\* `calls`.  os.mkdir raising FileNotFoundError makes the parent and tries
\* again without parents; another OSError is ignored when the path is a
\* directory by the time is_dir() looks, and raised otherwise.
PathMkdirStep(f, calls) ==
    LET top == Head(calls)
        rest == Tail(calls)
        r == OsMkdir(f, top.path)
        Go(g, made, cs) == [fs |-> g, made |-> made, calls |-> cs, raised |-> ""]
        Raise(e) == [fs |-> f, made |-> {}, calls |-> << >>, raised |-> e]
    IN IF top.op = "is_dir"
       THEN IF IsDir(f, top.path) THEN Go(f, {}, rest) ELSE Raise(top.err)
       ELSE IF r.ok THEN Go(r.fs, r.made, rest)
       ELSE IF r.err = "FileNotFoundError"
       THEN IF top.parents /\ top.path # << >>
            THEN Go(f, {}, <<MkdirCall(ParentOf(top.path), TRUE),
                             MkdirCall(top.path, FALSE)>> \o rest)
            ELSE Raise(r.err)
       ELSE Go(f, {}, <<IsDirCall(top.path, r.err)>> \o rest)

\* open(path, "w") of write_text, one system call (O_CREAT | O_TRUNC): a new
\* file is created, an existing one is cut to no bytes; a target that is a
\* directory raises IsADirectoryError
OpenForWrite(f, at, lex) ==
    LET name == IF lex = << >> THEN ".." ELSE lex[Len(lex)]
        target == Append(at, name)
    IN IF name = ".." \/ target \in f.dirs
       THEN [ok |-> FALSE, fs |-> f, made |-> {}, path |-> target]
       ELSE [ok |-> TRUE,
             fs |-> [dirs |-> f.dirs,
                     files |-> [p \in DOMAIN f.files \cup {target} |->
                                  IF p = target THEN << >> ELSE f.files[p]]],
             made |-> IF target \in DOMAIN f.files THEN {} ELSE {target},
             path |-> target]

\* what a file holding `old` holds after `bytes` are written at offset 0
Overlay(bytes, old) == bytes \o SubSeq(old, Len(bytes) + 1, Len(old))

\* write(fd, bytes) on the file opened at `path`, at offset 0: the bytes
\* replace the first bytes of whatever the file holds by now
WriteBytes(f, path, bytes) ==
    [f EXCEPT !.files[path] = Overlay(bytes, @)]

\* the file a worker has open: the path it was opened at, and whether that
\* path still names it (it does not once the file has been unlinked)
OpenFile(path) == [path |-> path, linked |-> TRUE]

NoFile == [path |-> << >>, linked |-> FALSE]

\* os.scandir(dir) read to its end: the entries of the directory, each with
\* its name and whether it is a directory
Scandir(f, dir) ==
    {[name |-> d[Len(d)], is_dir |-> TRUE] :
        d \in {e \in f.dirs : Len(e) = Len(dir) + 1 /\ IsPrefix(dir, e)}}
    \cup
    {[name |-> p[Len(p)], is_dir |-> FALSE] :
        p \in {q \in DOMAIN f.files : Len(q) = Len(dir) + 1 /\ IsPrefix(dir, q)}}

\* os.unlink(path): the name is removed
OsUnlink(f, path) ==
    [dirs |-> f.dirs, files |-> [p \in DOMAIN f.files \ {path} |-> f.files[p]]]

\* variant: the call removes nothing and reports no error
OsRmdir_Nothing(f, dir, refused) == [ok |-> TRUE, fs |-> f]

\* os.rmdir(dir), one system call: a directory that has an entry is not
\* removed (ENOTEMPTY), and the system can refuse the removal otherwise
\* (EBUSY, EACCES)
OsRmdir(f, dir, refused) ==
    IF refused \/ Scandir(f, dir) # {}
    THEN [ok |-> FALSE, fs |-> f]
    ELSE [ok |-> TRUE, fs |-> [f EXCEPT !.dirs = @ \ {dir}]]

\* a directory rmtree is inside of: its path and the entries of its listing
\* that are still to be removed
Frame(f, dir) == [dir |-> dir, todo |-> Scandir(f, dir)]

(***************************************************************************)
(* Result normalizer: map_severity, map_category, parse_semgrep_output     *)
(***************************************************************************)
Lowers == "abcdefghijklmnopqrstuvwxyz"
Uppers == "ABCDEFGHIJKLMNOPQRSTUVWXYZ"

\* dotless i (U+0131), which str.upper() turns into I
DotlessI == U("000131")

\* str.upper() outside ASCII (Unicode 14.0, as in Python 3.11): the code
\* points of every character whose upper case is another single character
\* outside ASCII, with the code point of that character
UpperPairs ==
    {
     <<"0000B5", "00039C">>, <<"0000E0", "0000C0">>, <<"0000E1", "0000C1">>,
     <<"0000E2", "0000C2">>, <<"0000E3", "0000C3">>, <<"0000E4", "0000C4">>,
     <<"0000E5", "0000C5">>, <<"0000E6", "0000C6">>, <<"0000E7", "0000C7">>,
     <<"0000E8", "0000C8">>, <<"0000E9", "0000C9">>, <<"0000EA", "0000CA">>,
     <<"0000EB", "0000CB">>, <<"0000EC", "0000CC">>, <<"0000ED", "0000CD">>,
     <<"0000EE", "0000CE">>, <<"0000EF", "0000CF">>, <<"0000F0", "0000D0">>,
     <<"0000F1", "0000D1">>, <<"0000F2", "0000D2">>, <<"0000F3", "0000D3">>,
     <<"0000F4", "0000D4">>, <<"0000F5", "0000D5">>, <<"0000F6", "0000D6">>,
     <<"0000F8", "0000D8">>, <<"0000F9", "0000D9">>, <<"0000FA", "0000DA">>,
     <<"0000FB", "0000DB">>, <<"0000FC", "0000DC">>, <<"0000FD", "0000DD">>,
     <<"0000FE", "0000DE">>, <<"0000FF", "000178">>, <<"000101", "000100">>,
     <<"000103", "000102">>, <<"000105", "000104">>, <<"000107", "000106">>,
     <<"000109", "000108">>, <<"00010B", "00010A">>, <<"00010D", "00010C">>,
     <<"00010F", "00010E">>, <<"000111", "000110">>, <<"000113", "000112">>,
     <<"000115", "000114">>, <<"000117", "000116">>, <<"000119", "000118">>,
     <<"00011B", "00011A">>, <<"00011D", "00011C">>, <<"00011F", "00011E">>,
     <<"000121", "000120">>, <<"000123", "000122">>, <<"000125", "000124">>,
     <<"000127", "000126">>, <<"000129", "000128">>, <<"00012B", "00012A">>,
     <<"00012D", "00012C">>, <<"00012F", "00012E">>, <<"000133", "000132">>,
     <<"000135", "000134">>, <<"000137", "000136">>, <<"00013A", "000139">>,
     <<"00013C", "00013B">>, <<"00013E", "00013D">>, <<"000140", "00013F">>,
     <<"000142", "000141">>, <<"000144", "000143">>, <<"000146", "000145">>,
     <<"000148", "000147">>, <<"00014B", "00014A">>, <<"00014D", "00014C">>,
     <<"00014F", "00014E">>, <<"000151", "000150">>, <<"000153", "000152">>,
     <<"000155", "000154">>, <<"000157", "000156">>, <<"000159", "000158">>,
     <<"00015B", "00015A">>, <<"00015D", "00015C">>, <<"00015F", "00015E">>,
     <<"000161", "000160">>, <<"000163", "000162">>, <<"000165", "000164">>,
     <<"000167", "000166">>, <<"000169", "000168">>, <<"00016B", "00016A">>,
     <<"00016D", "00016C">>, <<"00016F", "00016E">>, <<"000171", "000170">>,
     <<"000173", "000172">>, <<"000175", "000174">>, <<"000177", "000176">>,
     <<"00017A", "000179">>, <<"00017C", "00017B">>, <<"00017E", "00017D">>,
     <<"000180", "000243">>, <<"000183", "000182">>, <<"000185", "000184">>,
     <<"000188", "000187">>, <<"00018C", "00018B">>, <<"000192", "000191">>,
     <<"000195", "0001F6">>, <<"000199", "000198">>, <<"00019A", "00023D">>,
     <<"00019E", "000220">>, <<"0001A1", "0001A0">>, <<"0001A3", "0001A2">>,
     <<"0001A5", "0001A4">>, <<"0001A8", "0001A7">>, <<"0001AD", "0001AC">>,
     <<"0001B0", "0001AF">>, <<"0001B4", "0001B3">>, <<"0001B6", "0001B5">>,
     <<"0001B9", "0001B8">>, <<"0001BD", "0001BC">>, <<"0001BF", "0001F7">>,
     <<"0001C5", "0001C4">>, <<"0001C6", "0001C4">>, <<"0001C8", "0001C7">>,
     <<"0001C9", "0001C7">>, <<"0001CB", "0001CA">>, <<"0001CC", "0001CA">>,
     <<"0001CE", "0001CD">>, <<"0001D0", "0001CF">>, <<"0001D2", "0001D1">>,
     <<"0001D4", "0001D3">>, <<"0001D6", "0001D5">>, <<"0001D8", "0001D7">>,
     <<"0001DA", "0001D9">>, <<"0001DC", "0001DB">>, <<"0001DD", "00018E">>,
     <<"0001DF", "0001DE">>, <<"0001E1", "0001E0">>, <<"0001E3", "0001E2">>,
     <<"0001E5", "0001E4">>, <<"0001E7", "0001E6">>, <<"0001E9", "0001E8">>,
     <<"0001EB", "0001EA">>, <<"0001ED", "0001EC">>, <<"0001EF", "0001EE">>,
     <<"0001F2", "0001F1">>, <<"0001F3", "0001F1">>, <<"0001F5", "0001F4">>,
     <<"0001F9", "0001F8">>, <<"0001FB", "0001FA">>, <<"0001FD", "0001FC">>,
     <<"0001FF", "0001FE">>, <<"000201", "000200">>, <<"000203", "000202">>,
     <<"000205", "000204">>, <<"000207", "000206">>, <<"000209", "000208">>,
     <<"00020B", "00020A">>, <<"00020D", "00020C">>, <<"00020F", "00020E">>,
     <<"000211", "000210">>, <<"000213", "000212">>, <<"000215", "000214">>,
     <<"000217", "000216">>, <<"000219", "000218">>, <<"00021B", "00021A">>,
     <<"00021D", "00021C">>, <<"00021F", "00021E">>, <<"000223", "000222">>,
     <<"000225", "000224">>, <<"000227", "000226">>, <<"000229", "000228">>,
     <<"00022B", "00022A">>, <<"00022D", "00022C">>, <<"00022F", "00022E">>,
     <<"000231", "000230">>, <<"000233", "000232">>, <<"00023C", "00023B">>,
     <<"00023F", "002C7E">>, <<"000240", "002C7F">>, <<"000242", "000241">>,
     <<"000247", "000246">>, <<"000249", "000248">>, <<"00024B", "00024A">>,
     <<"00024D", "00024C">>, <<"00024F", "00024E">>, <<"000250", "002C6F">>,
     <<"000251", "002C6D">>, <<"000252", "002C70">>, <<"000253", "000181">>,
     <<"000254", "000186">>, <<"000256", "000189">>, <<"000257", "00018A">>,
     <<"000259", "00018F">>, <<"00025B", "000190">>, <<"00025C", "00A7AB">>,
     <<"000260", "000193">>, <<"000261", "00A7AC">>, <<"000263", "000194">>,
     <<"000265", "00A78D">>, <<"000266", "00A7AA">>, <<"000268", "000197">>,
     <<"000269", "000196">>, <<"00026A", "00A7AE">>, <<"00026B", "002C62">>,
     <<"00026C", "00A7AD">>, <<"00026F", "00019C">>, <<"000271", "002C6E">>,
     <<"000272", "00019D">>, <<"000275", "00019F">>, <<"00027D", "002C64">>,
     <<"000280", "0001A6">>, <<"000282", "00A7C5">>, <<"000283", "0001A9">>,
     <<"000287", "00A7B1">>, <<"000288", "0001AE">>, <<"000289", "000244">>,
     <<"00028A", "0001B1">>, <<"00028B", "0001B2">>, <<"00028C", "000245">>,
     <<"000292", "0001B7">>, <<"00029D", "00A7B2">>, <<"00029E", "00A7B0">>,
     <<"000345", "000399">>, <<"000371", "000370">>, <<"000373", "000372">>,
     <<"000377", "000376">>, <<"00037B", "0003FD">>, <<"00037C", "0003FE">>,
     <<"00037D", "0003FF">>, <<"0003AC", "000386">>, <<"0003AD", "000388">>,
     <<"0003AE", "000389">>, <<"0003AF", "00038A">>, <<"0003B1", "000391">>,
     <<"0003B2", "000392">>, <<"0003B3", "000393">>, <<"0003B4", "000394">>,
     <<"0003B5", "000395">>, <<"0003B6", "000396">>, <<"0003B7", "000397">>,
     <<"0003B8", "000398">>, <<"0003B9", "000399">>, <<"0003BA", "00039A">>,
     <<"0003BB", "00039B">>, <<"0003BC", "00039C">>, <<"0003BD", "00039D">>,
     <<"0003BE", "00039E">>, <<"0003BF", "00039F">>, <<"0003C0", "0003A0">>,
     <<"0003C1", "0003A1">>, <<"0003C2", "0003A3">>, <<"0003C3", "0003A3">>,
     <<"0003C4", "0003A4">>, <<"0003C5", "0003A5">>, <<"0003C6", "0003A6">>,
     <<"0003C7", "0003A7">>, <<"0003C8", "0003A8">>, <<"0003C9", "0003A9">>,
     <<"0003CA", "0003AA">>, <<"0003CB", "0003AB">>, <<"0003CC", "00038C">>,
     <<"0003CD", "00038E">>, <<"0003CE", "00038F">>, <<"0003D0", "000392">>,
     <<"0003D1", "000398">>, <<"0003D5", "0003A6">>, <<"0003D6", "0003A0">>,
     <<"0003D7", "0003CF">>, <<"0003D9", "0003D8">>, <<"0003DB", "0003DA">>,
     <<"0003DD", "0003DC">>, <<"0003DF", "0003DE">>, <<"0003E1", "0003E0">>,
     <<"0003E3", "0003E2">>, <<"0003E5", "0003E4">>, <<"0003E7", "0003E6">>,
     <<"0003E9", "0003E8">>, <<"0003EB", "0003EA">>, <<"0003ED", "0003EC">>,
     <<"0003EF", "0003EE">>, <<"0003F0", "00039A">>, <<"0003F1", "0003A1">>,
     <<"0003F2", "0003F9">>, <<"0003F3", "00037F">>, <<"0003F5", "000395">>,
     <<"0003F8", "0003F7">>, <<"0003FB", "0003FA">>, <<"000430", "000410">>,
     <<"000431", "000411">>, <<"000432", "000412">>, <<"000433", "000413">>,
     <<"000434", "000414">>, <<"000435", "000415">>, <<"000436", "000416">>,
     <<"000437", "000417">>, <<"000438", "000418">>, <<"000439", "000419">>,
     <<"00043A", "00041A">>, <<"00043B", "00041B">>, <<"00043C", "00041C">>,
     <<"00043D", "00041D">>, <<"00043E", "00041E">>, <<"00043F", "00041F">>,
     <<"000440", "000420">>, <<"000441", "000421">>, <<"000442", "000422">>,
     <<"000443", "000423">>, <<"000444", "000424">>, <<"000445", "000425">>,
     <<"000446", "000426">>, <<"000447", "000427">>, <<"000448", "000428">>,
     <<"000449", "000429">>, <<"00044A", "00042A">>, <<"00044B", "00042B">>,
     <<"00044C", "00042C">>, <<"00044D", "00042D">>, <<"00044E", "00042E">>,
     <<"00044F", "00042F">>, <<"000450", "000400">>, <<"000451", "000401">>,
     <<"000452", "000402">>, <<"000453", "000403">>, <<"000454", "000404">>,
     <<"000455", "000405">>, <<"000456", "000406">>, <<"000457", "000407">>,
     <<"000458", "000408">>, <<"000459", "000409">>, <<"00045A", "00040A">>,
     <<"00045B", "00040B">>, <<"00045C", "00040C">>, <<"00045D", "00040D">>,
     <<"00045E", "00040E">>, <<"00045F", "00040F">>, <<"000461", "000460">>,
     <<"000463", "000462">>, <<"000465", "000464">>, <<"000467", "000466">>,
     <<"000469", "000468">>, <<"00046B", "00046A">>, <<"00046D", "00046C">>,
     <<"00046F", "00046E">>, <<"000471", "000470">>, <<"000473", "000472">>,
     <<"000475", "000474">>, <<"000477", "000476">>, <<"000479", "000478">>,
     <<"00047B", "00047A">>, <<"00047D", "00047C">>, <<"00047F", "00047E">>,
     <<"000481", "000480">>, <<"00048B", "00048A">>, <<"00048D", "00048C">>,
     <<"00048F", "00048E">>, <<"000491", "000490">>, <<"000493", "000492">>,
     <<"000495", "000494">>, <<"000497", "000496">>, <<"000499", "000498">>,
     <<"00049B", "00049A">>, <<"00049D", "00049C">>, <<"00049F", "00049E">>,
     <<"0004A1", "0004A0">>, <<"0004A3", "0004A2">>, <<"0004A5", "0004A4">>,
     <<"0004A7", "0004A6">>, <<"0004A9", "0004A8">>, <<"0004AB", "0004AA">>,
     <<"0004AD", "0004AC">>, <<"0004AF", "0004AE">>, <<"0004B1", "0004B0">>,
     <<"0004B3", "0004B2">>, <<"0004B5", "0004B4">>, <<"0004B7", "0004B6">>,
     <<"0004B9", "0004B8">>, <<"0004BB", "0004BA">>, <<"0004BD", "0004BC">>,
     <<"0004BF", "0004BE">>, <<"0004C2", "0004C1">>, <<"0004C4", "0004C3">>,
     <<"0004C6", "0004C5">>, <<"0004C8", "0004C7">>, <<"0004CA", "0004C9">>,
     <<"0004CC", "0004CB">>, <<"0004CE", "0004CD">>, <<"0004CF", "0004C0">>,
     <<"0004D1", "0004D0">>, <<"0004D3", "0004D2">>, <<"0004D5", "0004D4">>,
     <<"0004D7", "0004D6">>, <<"0004D9", "0004D8">>, <<"0004DB", "0004DA">>,
     <<"0004DD", "0004DC">>, <<"0004DF", "0004DE">>, <<"0004E1", "0004E0">>,
     <<"0004E3", "0004E2">>, <<"0004E5", "0004E4">>, <<"0004E7", "0004E6">>,
     <<"0004E9", "0004E8">>, <<"0004EB", "0004EA">>, <<"0004ED", "0004EC">>,
     <<"0004EF", "0004EE">>, <<"0004F1", "0004F0">>, <<"0004F3", "0004F2">>,
     <<"0004F5", "0004F4">>, <<"0004F7", "0004F6">>, <<"0004F9", "0004F8">>,
     <<"0004FB", "0004FA">>, <<"0004FD", "0004FC">>, <<"0004FF", "0004FE">>,
     <<"000501", "000500">>, <<"000503", "000502">>, <<"000505", "000504">>,
     <<"000507", "000506">>, <<"000509", "000508">>, <<"00050B", "00050A">>,
     <<"00050D", "00050C">>, <<"00050F", "00050E">>, <<"000511", "000510">>,
     <<"000513", "000512">>, <<"000515", "000514">>, <<"000517", "000516">>,
     <<"000519", "000518">>, <<"00051B", "00051A">>, <<"00051D", "00051C">>,
     <<"00051F", "00051E">>, <<"000521", "000520">>, <<"000523", "000522">>,
     <<"000525", "000524">>, <<"000527", "000526">>, <<"000529", "000528">>,
     <<"00052B", "00052A">>, <<"00052D", "00052C">>, <<"00052F", "00052E">>,
     <<"000561", "000531">>, <<"000562", "000532">>, <<"000563", "000533">>,
     <<"000564", "000534">>, <<"000565", "000535">>, <<"000566", "000536">>,
     <<"000567", "000537">>, <<"000568", "000538">>, <<"000569", "000539">>,
     <<"00056A", "00053A">>, <<"00056B", "00053B">>, <<"00056C", "00053C">>,
     <<"00056D", "00053D">>, <<"00056E", "00053E">>, <<"00056F", "00053F">>,
     <<"000570", "000540">>, <<"000571", "000541">>, <<"000572", "000542">>,
     <<"000573", "000543">>, <<"000574", "000544">>, <<"000575", "000545">>,
     <<"000576", "000546">>, <<"000577", "000547">>, <<"000578", "000548">>,
     <<"000579", "000549">>, <<"00057A", "00054A">>, <<"00057B", "00054B">>,
     <<"00057C", "00054C">>, <<"00057D", "00054D">>, <<"00057E", "00054E">>,
     <<"00057F", "00054F">>, <<"000580", "000550">>, <<"000581", "000551">>,
     <<"000582", "000552">>, <<"000583", "000553">>, <<"000584", "000554">>,
     <<"000585", "000555">>, <<"000586", "000556">>, <<"0010D0", "001C90">>,
     <<"0010D1", "001C91">>, <<"0010D2", "001C92">>, <<"0010D3", "001C93">>,
     <<"0010D4", "001C94">>, <<"0010D5", "001C95">>, <<"0010D6", "001C96">>,
     <<"0010D7", "001C97">>, <<"0010D8", "001C98">>, <<"0010D9", "001C99">>,
     <<"0010DA", "001C9A">>, <<"0010DB", "001C9B">>, <<"0010DC", "001C9C">>,
     <<"0010DD", "001C9D">>, <<"0010DE", "001C9E">>, <<"0010DF", "001C9F">>,
     <<"0010E0", "001CA0">>, <<"0010E1", "001CA1">>, <<"0010E2", "001CA2">>,
     <<"0010E3", "001CA3">>, <<"0010E4", "001CA4">>, <<"0010E5", "001CA5">>,
     <<"0010E6", "001CA6">>, <<"0010E7", "001CA7">>, <<"0010E8", "001CA8">>,
     <<"0010E9", "001CA9">>, <<"0010EA", "001CAA">>, <<"0010EB", "001CAB">>,
     <<"0010EC", "001CAC">>, <<"0010ED", "001CAD">>, <<"0010EE", "001CAE">>,
     <<"0010EF", "001CAF">>, <<"0010F0", "001CB0">>, <<"0010F1", "001CB1">>,
     <<"0010F2", "001CB2">>, <<"0010F3", "001CB3">>, <<"0010F4", "001CB4">>,
     <<"0010F5", "001CB5">>, <<"0010F6", "001CB6">>, <<"0010F7", "001CB7">>,
     <<"0010F8", "001CB8">>, <<"0010F9", "001CB9">>, <<"0010FA", "001CBA">>,
     <<"0010FD", "001CBD">>, <<"0010FE", "001CBE">>, <<"0010FF", "001CBF">>,
     <<"0013F8", "0013F0">>, <<"0013F9", "0013F1">>, <<"0013FA", "0013F2">>,
     <<"0013FB", "0013F3">>, <<"0013FC", "0013F4">>, <<"0013FD", "0013F5">>,
     <<"001C80", "000412">>, <<"001C81", "000414">>, <<"001C82", "00041E">>,
     <<"001C83", "000421">>, <<"001C84", "000422">>, <<"001C85", "000422">>,
     <<"001C86", "00042A">>, <<"001C87", "000462">>, <<"001C88", "00A64A">>,
     <<"001D79", "00A77D">>, <<"001D7D", "002C63">>, <<"001D8E", "00A7C6">>,
     <<"001E01", "001E00">>, <<"001E03", "001E02">>, <<"001E05", "001E04">>,
     <<"001E07", "001E06">>, <<"001E09", "001E08">>, <<"001E0B", "001E0A">>,
     <<"001E0D", "001E0C">>, <<"001E0F", "001E0E">>, <<"001E11", "001E10">>,
     <<"001E13", "001E12">>, <<"001E15", "001E14">>, <<"001E17", "001E16">>,
     <<"001E19", "001E18">>, <<"001E1B", "001E1A">>, <<"001E1D", "001E1C">>,
     <<"001E1F", "001E1E">>, <<"001E21", "001E20">>, <<"001E23", "001E22">>,
     <<"001E25", "001E24">>, <<"001E27", "001E26">>, <<"001E29", "001E28">>,
     <<"001E2B", "001E2A">>, <<"001E2D", "001E2C">>, <<"001E2F", "001E2E">>,
     <<"001E31", "001E30">>, <<"001E33", "001E32">>, <<"001E35", "001E34">>,
     <<"001E37", "001E36">>, <<"001E39", "001E38">>, <<"001E3B", "001E3A">>,
     <<"001E3D", "001E3C">>, <<"001E3F", "001E3E">>, <<"001E41", "001E40">>,
     <<"001E43", "001E42">>, <<"001E45", "001E44">>, <<"001E47", "001E46">>,
     <<"001E49", "001E48">>, <<"001E4B", "001E4A">>, <<"001E4D", "001E4C">>,
     <<"001E4F", "001E4E">>, <<"001E51", "001E50">>, <<"001E53", "001E52">>,
     <<"001E55", "001E54">>, <<"001E57", "001E56">>, <<"001E59", "001E58">>,
     <<"001E5B", "001E5A">>, <<"001E5D", "001E5C">>, <<"001E5F", "001E5E">>,
     <<"001E61", "001E60">>, <<"001E63", "001E62">>, <<"001E65", "001E64">>,
     <<"001E67", "001E66">>, <<"001E69", "001E68">>, <<"001E6B", "001E6A">>,
     <<"001E6D", "001E6C">>, <<"001E6F", "001E6E">>, <<"001E71", "001E70">>,
     <<"001E73", "001E72">>, <<"001E75", "001E74">>, <<"001E77", "001E76">>,
     <<"001E79", "001E78">>, <<"001E7B", "001E7A">>, <<"001E7D", "001E7C">>,
     <<"001E7F", "001E7E">>, <<"001E81", "001E80">>, <<"001E83", "001E82">>,
     <<"001E85", "001E84">>, <<"001E87", "001E86">>, <<"001E89", "001E88">>,
     <<"001E8B", "001E8A">>, <<"001E8D", "001E8C">>, <<"001E8F", "001E8E">>,
     <<"001E91", "001E90">>, <<"001E93", "001E92">>, <<"001E95", "001E94">>,
     <<"001E9B", "001E60">>, <<"001EA1", "001EA0">>, <<"001EA3", "001EA2">>,
     <<"001EA5", "001EA4">>, <<"001EA7", "001EA6">>, <<"001EA9", "001EA8">>,
     <<"001EAB", "001EAA">>, <<"001EAD", "001EAC">>, <<"001EAF", "001EAE">>,
     <<"001EB1", "001EB0">>, <<"001EB3", "001EB2">>, <<"001EB5", "001EB4">>,
     <<"001EB7", "001EB6">>, <<"001EB9", "001EB8">>, <<"001EBB", "001EBA">>,
     <<"001EBD", "001EBC">>, <<"001EBF", "001EBE">>, <<"001EC1", "001EC0">>,
     <<"001EC3", "001EC2">>, <<"001EC5", "001EC4">>, <<"001EC7", "001EC6">>,
     <<"001EC9", "001EC8">>, <<"001ECB", "001ECA">>, <<"001ECD", "001ECC">>,
     <<"001ECF", "001ECE">>, <<"001ED1", "001ED0">>, <<"001ED3", "001ED2">>,
     <<"001ED5", "001ED4">>, <<"001ED7", "001ED6">>, <<"001ED9", "001ED8">>,
     <<"001EDB", "001EDA">>, <<"001EDD", "001EDC">>, <<"001EDF", "001EDE">>,
     <<"001EE1", "001EE0">>, <<"001EE3", "001EE2">>, <<"001EE5", "001EE4">>,
     <<"001EE7", "001EE6">>, <<"001EE9", "001EE8">>, <<"001EEB", "001EEA">>,
     <<"001EED", "001EEC">>, <<"001EEF", "001EEE">>, <<"001EF1", "001EF0">>,
     <<"001EF3", "001EF2">>, <<"001EF5", "001EF4">>, <<"001EF7", "001EF6">>,
     <<"001EF9", "001EF8">>, <<"001EFB", "001EFA">>, <<"001EFD", "001EFC">>,
     <<"001EFF", "001EFE">>, <<"001F00", "001F08">>, <<"001F01", "001F09">>,
     <<"001F02", "001F0A">>, <<"001F03", "001F0B">>, <<"001F04", "001F0C">>,
     <<"001F05", "001F0D">>, <<"001F06", "001F0E">>, <<"001F07", "001F0F">>,
     <<"001F10", "001F18">>, <<"001F11", "001F19">>, <<"001F12", "001F1A">>,
     <<"001F13", "001F1B">>, <<"001F14", "001F1C">>, <<"001F15", "001F1D">>,
     <<"001F20", "001F28">>, <<"001F21", "001F29">>, <<"001F22", "001F2A">>,
     <<"001F23", "001F2B">>, <<"001F24", "001F2C">>, <<"001F25", "001F2D">>,
     <<"001F26", "001F2E">>, <<"001F27", "001F2F">>, <<"001F30", "001F38">>,
     <<"001F31", "001F39">>, <<"001F32", "001F3A">>, <<"001F33", "001F3B">>,
     <<"001F34", "001F3C">>, <<"001F35", "001F3D">>, <<"001F36", "001F3E">>,
     <<"001F37", "001F3F">>, <<"001F40", "001F48">>, <<"001F41", "001F49">>,
     <<"001F42", "001F4A">>, <<"001F43", "001F4B">>, <<"001F44", "001F4C">>,
     <<"001F45", "001F4D">>, <<"001F51", "001F59">>, <<"001F53", "001F5B">>,
     <<"001F55", "001F5D">>, <<"001F57", "001F5F">>, <<"001F60", "001F68">>,
     <<"001F61", "001F69">>, <<"001F62", "001F6A">>, <<"001F63", "001F6B">>,
     <<"001F64", "001F6C">>, <<"001F65", "001F6D">>, <<"001F66", "001F6E">>,
     <<"001F67", "001F6F">>, <<"001F70", "001FBA">>, <<"001F71", "001FBB">>,
     <<"001F72", "001FC8">>, <<"001F73", "001FC9">>, <<"001F74", "001FCA">>,
     <<"001F75", "001FCB">>, <<"001F76", "001FDA">>, <<"001F77", "001FDB">>,
     <<"001F78", "001FF8">>, <<"001F79", "001FF9">>, <<"001F7A", "001FEA">>,
     <<"001F7B", "001FEB">>, <<"001F7C", "001FFA">>, <<"001F7D", "001FFB">>,
     <<"001FB0", "001FB8">>, <<"001FB1", "001FB9">>, <<"001FBE", "000399">>,
     <<"001FD0", "001FD8">>, <<"001FD1", "001FD9">>, <<"001FE0", "001FE8">>,
     <<"001FE1", "001FE9">>, <<"001FE5", "001FEC">>, <<"00214E", "002132">>,
     <<"002170", "002160">>, <<"002171", "002161">>, <<"002172", "002162">>,
     <<"002173", "002163">>, <<"002174", "002164">>, <<"002175", "002165">>,
     <<"002176", "002166">>, <<"002177", "002167">>, <<"002178", "002168">>,
     <<"002179", "002169">>, <<"00217A", "00216A">>, <<"00217B", "00216B">>,
     <<"00217C", "00216C">>, <<"00217D", "00216D">>, <<"00217E", "00216E">>,
     <<"00217F", "00216F">>, <<"002184", "002183">>, <<"0024D0", "0024B6">>,
     <<"0024D1", "0024B7">>, <<"0024D2", "0024B8">>, <<"0024D3", "0024B9">>,
     <<"0024D4", "0024BA">>, <<"0024D5", "0024BB">>, <<"0024D6", "0024BC">>,
     <<"0024D7", "0024BD">>, <<"0024D8", "0024BE">>, <<"0024D9", "0024BF">>,
     <<"0024DA", "0024C0">>, <<"0024DB", "0024C1">>, <<"0024DC", "0024C2">>,
     <<"0024DD", "0024C3">>, <<"0024DE", "0024C4">>, <<"0024DF", "0024C5">>,
     <<"0024E0", "0024C6">>, <<"0024E1", "0024C7">>, <<"0024E2", "0024C8">>,
     <<"0024E3", "0024C9">>, <<"0024E4", "0024CA">>, <<"0024E5", "0024CB">>,
     <<"0024E6", "0024CC">>, <<"0024E7", "0024CD">>, <<"0024E8", "0024CE">>,
     <<"0024E9", "0024CF">>, <<"002C30", "002C00">>, <<"002C31", "002C01">>,
     <<"002C32", "002C02">>, <<"002C33", "002C03">>, <<"002C34", "002C04">>,
     <<"002C35", "002C05">>, <<"002C36", "002C06">>, <<"002C37", "002C07">>,
     <<"002C38", "002C08">>, <<"002C39", "002C09">>, <<"002C3A", "002C0A">>,
     <<"002C3B", "002C0B">>, <<"002C3C", "002C0C">>, <<"002C3D", "002C0D">>,
     <<"002C3E", "002C0E">>, <<"002C3F", "002C0F">>, <<"002C40", "002C10">>,
     <<"002C41", "002C11">>, <<"002C42", "002C12">>, <<"002C43", "002C13">>,
     <<"002C44", "002C14">>, <<"002C45", "002C15">>, <<"002C46", "002C16">>,
     <<"002C47", "002C17">>, <<"002C48", "002C18">>, <<"002C49", "002C19">>,
     <<"002C4A", "002C1A">>, <<"002C4B", "002C1B">>, <<"002C4C", "002C1C">>,
     <<"002C4D", "002C1D">>, <<"002C4E", "002C1E">>, <<"002C4F", "002C1F">>,
     <<"002C50", "002C20">>, <<"002C51", "002C21">>, <<"002C52", "002C22">>,
     <<"002C53", "002C23">>, <<"002C54", "002C24">>, <<"002C55", "002C25">>,
     <<"002C56", "002C26">>, <<"002C57", "002C27">>, <<"002C58", "002C28">>,
     <<"002C59", "002C29">>, <<"002C5A", "002C2A">>, <<"002C5B", "002C2B">>,
     <<"002C5C", "002C2C">>, <<"002C5D", "002C2D">>, <<"002C5E", "002C2E">>,
     <<"002C5F", "002C2F">>, <<"002C61", "002C60">>, <<"002C65", "00023A">>,
     <<"002C66", "00023E">>, <<"002C68", "002C67">>, <<"002C6A", "002C69">>,
     <<"002C6C", "002C6B">>, <<"002C73", "002C72">>, <<"002C76", "002C75">>,
     <<"002C81", "002C80">>, <<"002C83", "002C82">>, <<"002C85", "002C84">>,
     <<"002C87", "002C86">>, <<"002C89", "002C88">>, <<"002C8B", "002C8A">>,
     <<"002C8D", "002C8C">>, <<"002C8F", "002C8E">>, <<"002C91", "002C90">>,
     <<"002C93", "002C92">>, <<"002C95", "002C94">>, <<"002C97", "002C96">>,
     <<"002C99", "002C98">>, <<"002C9B", "002C9A">>, <<"002C9D", "002C9C">>,
     <<"002C9F", "002C9E">>, <<"002CA1", "002CA0">>, <<"002CA3", "002CA2">>,
     <<"002CA5", "002CA4">>, <<"002CA7", "002CA6">>, <<"002CA9", "002CA8">>,
     <<"002CAB", "002CAA">>, <<"002CAD", "002CAC">>, <<"002CAF", "002CAE">>,
     <<"002CB1", "002CB0">>, <<"002CB3", "002CB2">>, <<"002CB5", "002CB4">>,
     <<"002CB7", "002CB6">>, <<"002CB9", "002CB8">>, <<"002CBB", "002CBA">>,
     <<"002CBD", "002CBC">>, <<"002CBF", "002CBE">>, <<"002CC1", "002CC0">>,
     <<"002CC3", "002CC2">>, <<"002CC5", "002CC4">>, <<"002CC7", "002CC6">>,
     <<"002CC9", "002CC8">>, <<"002CCB", "002CCA">>, <<"002CCD", "002CCC">>,
     <<"002CCF", "002CCE">>, <<"002CD1", "002CD0">>, <<"002CD3", "002CD2">>,
     <<"002CD5", "002CD4">>, <<"002CD7", "002CD6">>, <<"002CD9", "002CD8">>,
     <<"002CDB", "002CDA">>, <<"002CDD", "002CDC">>, <<"002CDF", "002CDE">>,
     <<"002CE1", "002CE0">>, <<"002CE3", "002CE2">>, <<"002CEC", "002CEB">>,
     <<"002CEE", "002CED">>, <<"002CF3", "002CF2">>, <<"002D00", "0010A0">>,
     <<"002D01", "0010A1">>, <<"002D02", "0010A2">>, <<"002D03", "0010A3">>,
     <<"002D04", "0010A4">>, <<"002D05", "0010A5">>, <<"002D06", "0010A6">>,
     <<"002D07", "0010A7">>, <<"002D08", "0010A8">>, <<"002D09", "0010A9">>,
     <<"002D0A", "0010AA">>, <<"002D0B", "0010AB">>, <<"002D0C", "0010AC">>,
     <<"002D0D", "0010AD">>, <<"002D0E", "0010AE">>, <<"002D0F", "0010AF">>,
     <<"002D10", "0010B0">>, <<"002D11", "0010B1">>, <<"002D12", "0010B2">>,
     <<"002D13", "0010B3">>, <<"002D14", "0010B4">>, <<"002D15", "0010B5">>,
     <<"002D16", "0010B6">>, <<"002D17", "0010B7">>, <<"002D18", "0010B8">>,
     <<"002D19", "0010B9">>, <<"002D1A", "0010BA">>, <<"002D1B", "0010BB">>,
     <<"002D1C", "0010BC">>, <<"002D1D", "0010BD">>, <<"002D1E", "0010BE">>,
     <<"002D1F", "0010BF">>, <<"002D20", "0010C0">>, <<"002D21", "0010C1">>,
     <<"002D22", "0010C2">>, <<"002D23", "0010C3">>, <<"002D24", "0010C4">>,
     <<"002D25", "0010C5">>, <<"002D27", "0010C7">>, <<"002D2D", "0010CD">>,
     <<"00A641", "00A640">>, <<"00A643", "00A642">>, <<"00A645", "00A644">>,
     <<"00A647", "00A646">>, <<"00A649", "00A648">>, <<"00A64B", "00A64A">>,
     <<"00A64D", "00A64C">>, <<"00A64F", "00A64E">>, <<"00A651", "00A650">>,
     <<"00A653", "00A652">>, <<"00A655", "00A654">>, <<"00A657", "00A656">>,
     <<"00A659", "00A658">>, <<"00A65B", "00A65A">>, <<"00A65D", "00A65C">>,
     <<"00A65F", "00A65E">>, <<"00A661", "00A660">>, <<"00A663", "00A662">>,
     <<"00A665", "00A664">>, <<"00A667", "00A666">>, <<"00A669", "00A668">>,
     <<"00A66B", "00A66A">>, <<"00A66D", "00A66C">>, <<"00A681", "00A680">>,
     <<"00A683", "00A682">>, <<"00A685", "00A684">>, <<"00A687", "00A686">>,
     <<"00A689", "00A688">>, <<"00A68B", "00A68A">>, <<"00A68D", "00A68C">>,
     <<"00A68F", "00A68E">>, <<"00A691", "00A690">>, <<"00A693", "00A692">>,
     <<"00A695", "00A694">>, <<"00A697", "00A696">>, <<"00A699", "00A698">>,
     <<"00A69B", "00A69A">>, <<"00A723", "00A722">>, <<"00A725", "00A724">>,
     <<"00A727", "00A726">>, <<"00A729", "00A728">>, <<"00A72B", "00A72A">>,
     <<"00A72D", "00A72C">>, <<"00A72F", "00A72E">>, <<"00A733", "00A732">>,
     <<"00A735", "00A734">>, <<"00A737", "00A736">>, <<"00A739", "00A738">>,
     <<"00A73B", "00A73A">>, <<"00A73D", "00A73C">>, <<"00A73F", "00A73E">>,
     <<"00A741", "00A740">>, <<"00A743", "00A742">>, <<"00A745", "00A744">>,
     <<"00A747", "00A746">>, <<"00A749", "00A748">>, <<"00A74B", "00A74A">>,
     <<"00A74D", "00A74C">>, <<"00A74F", "00A74E">>, <<"00A751", "00A750">>,
     <<"00A753", "00A752">>, <<"00A755", "00A754">>, <<"00A757", "00A756">>,
     <<"00A759", "00A758">>, <<"00A75B", "00A75A">>, <<"00A75D", "00A75C">>,
     <<"00A75F", "00A75E">>, <<"00A761", "00A760">>, <<"00A763", "00A762">>,
     <<"00A765", "00A764">>, <<"00A767", "00A766">>, <<"00A769", "00A768">>,
     <<"00A76B", "00A76A">>, <<"00A76D", "00A76C">>, <<"00A76F", "00A76E">>,
     <<"00A77A", "00A779">>, <<"00A77C", "00A77B">>, <<"00A77F", "00A77E">>,
     <<"00A781", "00A780">>, <<"00A783", "00A782">>, <<"00A785", "00A784">>,
     <<"00A787", "00A786">>, <<"00A78C", "00A78B">>, <<"00A791", "00A790">>,
     <<"00A793", "00A792">>, <<"00A794", "00A7C4">>, <<"00A797", "00A796">>,
     <<"00A799", "00A798">>, <<"00A79B", "00A79A">>, <<"00A79D", "00A79C">>,
     <<"00A79F", "00A79E">>, <<"00A7A1", "00A7A0">>, <<"00A7A3", "00A7A2">>,
     <<"00A7A5", "00A7A4">>, <<"00A7A7", "00A7A6">>, <<"00A7A9", "00A7A8">>,
     <<"00A7B5", "00A7B4">>, <<"00A7B7", "00A7B6">>, <<"00A7B9", "00A7B8">>,
     <<"00A7BB", "00A7BA">>, <<"00A7BD", "00A7BC">>, <<"00A7BF", "00A7BE">>,
     <<"00A7C1", "00A7C0">>, <<"00A7C3", "00A7C2">>, <<"00A7C8", "00A7C7">>,
     <<"00A7CA", "00A7C9">>, <<"00A7D1", "00A7D0">>, <<"00A7D7", "00A7D6">>,
     <<"00A7D9", "00A7D8">>, <<"00A7F6", "00A7F5">>, <<"00AB53", "00A7B3">>,
     <<"00AB70", "0013A0">>, <<"00AB71", "0013A1">>, <<"00AB72", "0013A2">>,
     <<"00AB73", "0013A3">>, <<"00AB74", "0013A4">>, <<"00AB75", "0013A5">>,
     <<"00AB76", "0013A6">>, <<"00AB77", "0013A7">>, <<"00AB78", "0013A8">>,
     <<"00AB79", "0013A9">>, <<"00AB7A", "0013AA">>, <<"00AB7B", "0013AB">>,
     <<"00AB7C", "0013AC">>, <<"00AB7D", "0013AD">>, <<"00AB7E", "0013AE">>,
     <<"00AB7F", "0013AF">>, <<"00AB80", "0013B0">>, <<"00AB81", "0013B1">>,
     <<"00AB82", "0013B2">>, <<"00AB83", "0013B3">>, <<"00AB84", "0013B4">>,
     <<"00AB85", "0013B5">>, <<"00AB86", "0013B6">>, <<"00AB87", "0013B7">>,
     <<"00AB88", "0013B8">>, <<"00AB89", "0013B9">>, <<"00AB8A", "0013BA">>,
     <<"00AB8B", "0013BB">>, <<"00AB8C", "0013BC">>, <<"00AB8D", "0013BD">>,
     <<"00AB8E", "0013BE">>, <<"00AB8F", "0013BF">>, <<"00AB90", "0013C0">>,
     <<"00AB91", "0013C1">>, <<"00AB92", "0013C2">>, <<"00AB93", "0013C3">>,
     <<"00AB94", "0013C4">>, <<"00AB95", "0013C5">>, <<"00AB96", "0013C6">>,
     <<"00AB97", "0013C7">>, <<"00AB98", "0013C8">>, <<"00AB99", "0013C9">>,
     <<"00AB9A", "0013CA">>, <<"00AB9B", "0013CB">>, <<"00AB9C", "0013CC">>,
     <<"00AB9D", "0013CD">>, <<"00AB9E", "0013CE">>, <<"00AB9F", "0013CF">>,
     <<"00ABA0", "0013D0">>, <<"00ABA1", "0013D1">>, <<"00ABA2", "0013D2">>,
     <<"00ABA3", "0013D3">>, <<"00ABA4", "0013D4">>, <<"00ABA5", "0013D5">>,
     <<"00ABA6", "0013D6">>, <<"00ABA7", "0013D7">>, <<"00ABA8", "0013D8">>,
     <<"00ABA9", "0013D9">>, <<"00ABAA", "0013DA">>, <<"00ABAB", "0013DB">>,
     <<"00ABAC", "0013DC">>, <<"00ABAD", "0013DD">>, <<"00ABAE", "0013DE">>,
     <<"00ABAF", "0013DF">>, <<"00ABB0", "0013E0">>, <<"00ABB1", "0013E1">>,
     <<"00ABB2", "0013E2">>, <<"00ABB3", "0013E3">>, <<"00ABB4", "0013E4">>,
     <<"00ABB5", "0013E5">>, <<"00ABB6", "0013E6">>, <<"00ABB7", "0013E7">>,
     <<"00ABB8", "0013E8">>, <<"00ABB9", "0013E9">>, <<"00ABBA", "0013EA">>,
     <<"00ABBB", "0013EB">>, <<"00ABBC", "0013EC">>, <<"00ABBD", "0013ED">>,
     <<"00ABBE", "0013EE">>, <<"00ABBF", "0013EF">>, <<"00FF41", "00FF21">>,
     <<"00FF42", "00FF22">>, <<"00FF43", "00FF23">>, <<"00FF44", "00FF24">>,
     <<"00FF45", "00FF25">>, <<"00FF46", "00FF26">>, <<"00FF47", "00FF27">>,
     <<"00FF48", "00FF28">>, <<"00FF49", "00FF29">>, <<"00FF4A", "00FF2A">>,
     <<"00FF4B", "00FF2B">>, <<"00FF4C", "00FF2C">>, <<"00FF4D", "00FF2D">>,
     <<"00FF4E", "00FF2E">>, <<"00FF4F", "00FF2F">>, <<"00FF50", "00FF30">>,
     <<"00FF51", "00FF31">>, <<"00FF52", "00FF32">>, <<"00FF53", "00FF33">>,
     <<"00FF54", "00FF34">>, <<"00FF55", "00FF35">>, <<"00FF56", "00FF36">>,
     <<"00FF57", "00FF37">>, <<"00FF58", "00FF38">>, <<"00FF59", "00FF39">>,
     <<"00FF5A", "00FF3A">>, <<"010428", "010400">>, <<"010429", "010401">>,
     <<"01042A", "010402">>, <<"01042B", "010403">>, <<"01042C", "010404">>,
     <<"01042D", "010405">>, <<"01042E", "010406">>, <<"01042F", "010407">>,
     <<"010430", "010408">>, <<"010431", "010409">>, <<"010432", "01040A">>,
     <<"010433", "01040B">>, <<"010434", "01040C">>, <<"010435", "01040D">>,
     <<"010436", "01040E">>, <<"010437", "01040F">>, <<"010438", "010410">>,
     <<"010439", "010411">>, <<"01043A", "010412">>, <<"01043B", "010413">>,
     <<"01043C", "010414">>, <<"01043D", "010415">>, <<"01043E", "010416">>,
     <<"01043F", "010417">>, <<"010440", "010418">>, <<"010441", "010419">>,
     <<"010442", "01041A">>, <<"010443", "01041B">>, <<"010444", "01041C">>,
     <<"010445", "01041D">>, <<"010446", "01041E">>, <<"010447", "01041F">>,
     <<"010448", "010420">>, <<"010449", "010421">>, <<"01044A", "010422">>,
     <<"01044B", "010423">>, <<"01044C", "010424">>, <<"01044D", "010425">>,
     <<"01044E", "010426">>, <<"01044F", "010427">>, <<"0104D8", "0104B0">>,
     <<"0104D9", "0104B1">>, <<"0104DA", "0104B2">>, <<"0104DB", "0104B3">>,
     <<"0104DC", "0104B4">>, <<"0104DD", "0104B5">>, <<"0104DE", "0104B6">>,
     <<"0104DF", "0104B7">>, <<"0104E0", "0104B8">>, <<"0104E1", "0104B9">>,
     <<"0104E2", "0104BA">>, <<"0104E3", "0104BB">>, <<"0104E4", "0104BC">>,
     <<"0104E5", "0104BD">>, <<"0104E6", "0104BE">>, <<"0104E7", "0104BF">>,
     <<"0104E8", "0104C0">>, <<"0104E9", "0104C1">>, <<"0104EA", "0104C2">>,
     <<"0104EB", "0104C3">>, <<"0104EC", "0104C4">>, <<"0104ED", "0104C5">>,
     <<"0104EE", "0104C6">>, <<"0104EF", "0104C7">>, <<"0104F0", "0104C8">>,
     <<"0104F1", "0104C9">>, <<"0104F2", "0104CA">>, <<"0104F3", "0104CB">>,
     <<"0104F4", "0104CC">>, <<"0104F5", "0104CD">>, <<"0104F6", "0104CE">>,
     <<"0104F7", "0104CF">>, <<"0104F8", "0104D0">>, <<"0104F9", "0104D1">>,
     <<"0104FA", "0104D2">>, <<"0104FB", "0104D3">>, <<"010597", "010570">>,
     <<"010598", "010571">>, <<"010599", "010572">>, <<"01059A", "010573">>,
     <<"01059B", "010574">>, <<"01059C", "010575">>, <<"01059D", "010576">>,
     <<"01059E", "010577">>, <<"01059F", "010578">>, <<"0105A0", "010579">>,
     <<"0105A1", "01057A">>, <<"0105A3", "01057C">>, <<"0105A4", "01057D">>,
     <<"0105A5", "01057E">>, <<"0105A6", "01057F">>, <<"0105A7", "010580">>,
     <<"0105A8", "010581">>, <<"0105A9", "010582">>, <<"0105AA", "010583">>,
     <<"0105AB", "010584">>, <<"0105AC", "010585">>, <<"0105AD", "010586">>,
     <<"0105AE", "010587">>, <<"0105AF", "010588">>, <<"0105B0", "010589">>,
     <<"0105B1", "01058A">>, <<"0105B3", "01058C">>, <<"0105B4", "01058D">>,
     <<"0105B5", "01058E">>, <<"0105B6", "01058F">>, <<"0105B7", "010590">>,
     <<"0105B8", "010591">>, <<"0105B9", "010592">>, <<"0105BB", "010594">>,
     <<"0105BC", "010595">>, <<"010CC0", "010C80">>, <<"010CC1", "010C81">>,
     <<"010CC2", "010C82">>, <<"010CC3", "010C83">>, <<"010CC4", "010C84">>,
     <<"010CC5", "010C85">>, <<"010CC6", "010C86">>, <<"010CC7", "010C87">>,
     <<"010CC8", "010C88">>, <<"010CC9", "010C89">>, <<"010CCA", "010C8A">>,
     <<"010CCB", "010C8B">>, <<"010CCC", "010C8C">>, <<"010CCD", "010C8D">>,
     <<"010CCE", "010C8E">>, <<"010CCF", "010C8F">>, <<"010CD0", "010C90">>,
     <<"010CD1", "010C91">>, <<"010CD2", "010C92">>, <<"010CD3", "010C93">>,
     <<"010CD4", "010C94">>, <<"010CD5", "010C95">>, <<"010CD6", "010C96">>,
     <<"010CD7", "010C97">>, <<"010CD8", "010C98">>, <<"010CD9", "010C99">>,
     <<"010CDA", "010C9A">>, <<"010CDB", "010C9B">>, <<"010CDC", "010C9C">>,
     <<"010CDD", "010C9D">>, <<"010CDE", "010C9E">>, <<"010CDF", "010C9F">>,
     <<"010CE0", "010CA0">>, <<"010CE1", "010CA1">>, <<"010CE2", "010CA2">>,
     <<"010CE3", "010CA3">>, <<"010CE4", "010CA4">>, <<"010CE5", "010CA5">>,
     <<"010CE6", "010CA6">>, <<"010CE7", "010CA7">>, <<"010CE8", "010CA8">>,
     <<"010CE9", "010CA9">>, <<"010CEA", "010CAA">>, <<"010CEB", "010CAB">>,
     <<"010CEC", "010CAC">>, <<"010CED", "010CAD">>, <<"010CEE", "010CAE">>,
     <<"010CEF", "010CAF">>, <<"010CF0", "010CB0">>, <<"010CF1", "010CB1">>,
     <<"010CF2", "010CB2">>, <<"0118C0", "0118A0">>, <<"0118C1", "0118A1">>,
     <<"0118C2", "0118A2">>, <<"0118C3", "0118A3">>, <<"0118C4", "0118A4">>,
     <<"0118C5", "0118A5">>, <<"0118C6", "0118A6">>, <<"0118C7", "0118A7">>,
     <<"0118C8", "0118A8">>, <<"0118C9", "0118A9">>, <<"0118CA", "0118AA">>,
     <<"0118CB", "0118AB">>, <<"0118CC", "0118AC">>, <<"0118CD", "0118AD">>,
     <<"0118CE", "0118AE">>, <<"0118CF", "0118AF">>, <<"0118D0", "0118B0">>,
     <<"0118D1", "0118B1">>, <<"0118D2", "0118B2">>, <<"0118D3", "0118B3">>,
     <<"0118D4", "0118B4">>, <<"0118D5", "0118B5">>, <<"0118D6", "0118B6">>,
     <<"0118D7", "0118B7">>, <<"0118D8", "0118B8">>, <<"0118D9", "0118B9">>,
     <<"0118DA", "0118BA">>, <<"0118DB", "0118BB">>, <<"0118DC", "0118BC">>,
     <<"0118DD", "0118BD">>, <<"0118DE", "0118BE">>, <<"0118DF", "0118BF">>,
     <<"016E60", "016E40">>, <<"016E61", "016E41">>, <<"016E62", "016E42">>,
     <<"016E63", "016E43">>, <<"016E64", "016E44">>, <<"016E65", "016E45">>,
     <<"016E66", "016E46">>, <<"016E67", "016E47">>, <<"016E68", "016E48">>,
     <<"016E69", "016E49">>, <<"016E6A", "016E4A">>, <<"016E6B", "016E4B">>,
     <<"016E6C", "016E4C">>, <<"016E6D", "016E4D">>, <<"016E6E", "016E4E">>,
     <<"016E6F", "016E4F">>, <<"016E70", "016E50">>, <<"016E71", "016E51">>,
     <<"016E72", "016E52">>, <<"016E73", "016E53">>, <<"016E74", "016E54">>,
     <<"016E75", "016E55">>, <<"016E76", "016E56">>, <<"016E77", "016E57">>,
     <<"016E78", "016E58">>, <<"016E79", "016E59">>, <<"016E7A", "016E5A">>,
     <<"016E7B", "016E5B">>, <<"016E7C", "016E5C">>, <<"016E7D", "016E5D">>,
     <<"016E7E", "016E5E">>, <<"016E7F", "016E5F">>, <<"01E922", "01E900">>,
     <<"01E923", "01E901">>, <<"01E924", "01E902">>, <<"01E925", "01E903">>,
     <<"01E926", "01E904">>, <<"01E927", "01E905">>, <<"01E928", "01E906">>,
     <<"01E929", "01E907">>, <<"01E92A", "01E908">>, <<"01E92B", "01E909">>,
     <<"01E92C", "01E90A">>, <<"01E92D", "01E90B">>, <<"01E92E", "01E90C">>,
     <<"01E92F", "01E90D">>, <<"01E930", "01E90E">>, <<"01E931", "01E90F">>,
     <<"01E932", "01E910">>, <<"01E933", "01E911">>, <<"01E934", "01E912">>,
     <<"01E935", "01E913">>, <<"01E936", "01E914">>, <<"01E937", "01E915">>,
     <<"01E938", "01E916">>, <<"01E939", "01E917">>, <<"01E93A", "01E918">>,
     <<"01E93B", "01E919">>, <<"01E93C", "01E91A">>, <<"01E93D", "01E91B">>,
     <<"01E93E", "01E91C">>, <<"01E93F", "01E91D">>, <<"01E940", "01E91E">>,
     <<"01E941", "01E91F">>, <<"01E942", "01E920">>, <<"01E943", "01E921">>}

\* the characters whose upper case is an ASCII letter or more than one
\* character, with their upper case
SpecialUppers ==
    {
     <<U("0000DF"), "SS">>, <<U("000131"), "I">>,
     <<U("000149"), U("0002BC") \o "N">>, <<U("00017F"), "S">>,
     <<U("0001F0"), "J" \o U("00030C")>>, <<U("000390"), U("000399") \o U("000308") \o U("000301")>>,
     <<U("0003B0"), U("0003A5") \o U("000308") \o U("000301")>>, <<U("000587"), U("000535") \o U("000552")>>,
     <<U("001E96"), "H" \o U("000331")>>, <<U("001E97"), "T" \o U("000308")>>,
     <<U("001E98"), "W" \o U("00030A")>>, <<U("001E99"), "Y" \o U("00030A")>>,
     <<U("001E9A"), "A" \o U("0002BE")>>, <<U("001F50"), U("0003A5") \o U("000313")>>,
     <<U("001F52"), U("0003A5") \o U("000313") \o U("000300")>>, <<U("001F54"), U("0003A5") \o U("000313") \o U("000301")>>,
     <<U("001F56"), U("0003A5") \o U("000313") \o U("000342")>>, <<U("001F80"), U("001F08") \o U("000399")>>,
     <<U("001F81"), U("001F09") \o U("000399")>>, <<U("001F82"), U("001F0A") \o U("000399")>>,
     <<U("001F83"), U("001F0B") \o U("000399")>>, <<U("001F84"), U("001F0C") \o U("000399")>>,
     <<U("001F85"), U("001F0D") \o U("000399")>>, <<U("001F86"), U("001F0E") \o U("000399")>>,
     <<U("001F87"), U("001F0F") \o U("000399")>>, <<U("001F88"), U("001F08") \o U("000399")>>,
     <<U("001F89"), U("001F09") \o U("000399")>>, <<U("001F8A"), U("001F0A") \o U("000399")>>,
     <<U("001F8B"), U("001F0B") \o U("000399")>>, <<U("001F8C"), U("001F0C") \o U("000399")>>,
     <<U("001F8D"), U("001F0D") \o U("000399")>>, <<U("001F8E"), U("001F0E") \o U("000399")>>,
     <<U("001F8F"), U("001F0F") \o U("000399")>>, <<U("001F90"), U("001F28") \o U("000399")>>,
     <<U("001F91"), U("001F29") \o U("000399")>>, <<U("001F92"), U("001F2A") \o U("000399")>>,
     <<U("001F93"), U("001F2B") \o U("000399")>>, <<U("001F94"), U("001F2C") \o U("000399")>>,
     <<U("001F95"), U("001F2D") \o U("000399")>>, <<U("001F96"), U("001F2E") \o U("000399")>>,
     <<U("001F97"), U("001F2F") \o U("000399")>>, <<U("001F98"), U("001F28") \o U("000399")>>,
     <<U("001F99"), U("001F29") \o U("000399")>>, <<U("001F9A"), U("001F2A") \o U("000399")>>,
     <<U("001F9B"), U("001F2B") \o U("000399")>>, <<U("001F9C"), U("001F2C") \o U("000399")>>,
     <<U("001F9D"), U("001F2D") \o U("000399")>>, <<U("001F9E"), U("001F2E") \o U("000399")>>,
     <<U("001F9F"), U("001F2F") \o U("000399")>>, <<U("001FA0"), U("001F68") \o U("000399")>>,
     <<U("001FA1"), U("001F69") \o U("000399")>>, <<U("001FA2"), U("001F6A") \o U("000399")>>,
     <<U("001FA3"), U("001F6B") \o U("000399")>>, <<U("001FA4"), U("001F6C") \o U("000399")>>,
     <<U("001FA5"), U("001F6D") \o U("000399")>>, <<U("001FA6"), U("001F6E") \o U("000399")>>,
     <<U("001FA7"), U("001F6F") \o U("000399")>>, <<U("001FA8"), U("001F68") \o U("000399")>>,
     <<U("001FA9"), U("001F69") \o U("000399")>>, <<U("001FAA"), U("001F6A") \o U("000399")>>,
     <<U("001FAB"), U("001F6B") \o U("000399")>>, <<U("001FAC"), U("001F6C") \o U("000399")>>,
     <<U("001FAD"), U("001F6D") \o U("000399")>>, <<U("001FAE"), U("001F6E") \o U("000399")>>,
     <<U("001FAF"), U("001F6F") \o U("000399")>>, <<U("001FB2"), U("001FBA") \o U("000399")>>,
     <<U("001FB3"), U("000391") \o U("000399")>>, <<U("001FB4"), U("000386") \o U("000399")>>,
     <<U("001FB6"), U("000391") \o U("000342")>>, <<U("001FB7"), U("000391") \o U("000342") \o U("000399")>>,
     <<U("001FBC"), U("000391") \o U("000399")>>, <<U("001FC2"), U("001FCA") \o U("000399")>>,
     <<U("001FC3"), U("000397") \o U("000399")>>, <<U("001FC4"), U("000389") \o U("000399")>>,
     <<U("001FC6"), U("000397") \o U("000342")>>, <<U("001FC7"), U("000397") \o U("000342") \o U("000399")>>,
     <<U("001FCC"), U("000397") \o U("000399")>>, <<U("001FD2"), U("000399") \o U("000308") \o U("000300")>>,
     <<U("001FD3"), U("000399") \o U("000308") \o U("000301")>>, <<U("001FD6"), U("000399") \o U("000342")>>,
     <<U("001FD7"), U("000399") \o U("000308") \o U("000342")>>, <<U("001FE2"), U("0003A5") \o U("000308") \o U("000300")>>,
     <<U("001FE3"), U("0003A5") \o U("000308") \o U("000301")>>, <<U("001FE4"), U("0003A1") \o U("000313")>>,
     <<U("001FE6"), U("0003A5") \o U("000342")>>, <<U("001FE7"), U("0003A5") \o U("000308") \o U("000342")>>,
     <<U("001FF2"), U("001FFA") \o U("000399")>>, <<U("001FF3"), U("0003A9") \o U("000399")>>,
     <<U("001FF4"), U("00038F") \o U("000399")>>, <<U("001FF6"), U("0003A9") \o U("000342")>>,
     <<U("001FF7"), U("0003A9") \o U("000342") \o U("000399")>>, <<U("001FFC"), U("0003A9") \o U("000399")>>,
     <<U("00FB00"), "FF">>, <<U("00FB01"), "FI">>,
     <<U("00FB02"), "FL">>, <<U("00FB03"), "FFI">>,
     <<U("00FB04"), "FFL">>, <<U("00FB05"), "ST">>,
     <<U("00FB06"), "ST">>, <<U("00FB13"), U("000544") \o U("000546")>>,
     <<U("00FB14"), U("000544") \o U("000535")>>, <<U("00FB15"), U("000544") \o U("00053B")>>,
     <<U("00FB16"), U("00054E") \o U("000546")>>, <<U("00FB17"), U("000544") \o U("00053D")>>}

\* the first character of a non-empty s
FirstChar(s) == SubSeq(s, 1, CharWidth(s, 1))

\* c.upper() for one character c
UpperChar(c) ==
    LET at == {i \in 1..Len(Lowers) : SubSeq(Lowers, i, i) = c}
        sp == {p \in SpecialUppers : p[1] = c}
        pr == {p \in UpperPairs : p[1] = SubSeq(c, 2, Len(c))}
    IN IF at # {} THEN LET i == CHOOSE j \in at : TRUE IN SubSeq(Uppers, i, i)
       ELSE IF Len(c) = 1 THEN c
       ELSE IF sp # {} THEN (CHOOSE p \in sp : TRUE)[2]
       ELSE IF pr # {} THEN U((CHOOSE p \in pr : TRUE)[2])
       ELSE c

\* s.upper()
RECURSIVE Upper(_)
Upper(s) ==
    IF s = "" THEN ""
    ELSE LET c == FirstChar(s) IN UpperChar(c) \o Upper(Drop(s, Len(c)))

\* d.get(k, default) on a JSON object (a function from its keys)
Get(d, k, default) == IF k \in DOMAIN d THEN d[k] ELSE default

EmptyDict == [k \in {} |-> ""]

SeverityMapping == [ERROR |-> "error", WARNING |-> "warning", INFO |-> "info"]

\* variant: the token is looked up without .upper()
map_severity_CaseSensitive(semgrep_severity) ==
    Get(SeverityMapping, semgrep_severity, "info")

map_severity(semgrep_severity) ==
    Get(SeverityMapping, Upper(semgrep_severity), "info")

security_rules ==
    {"hardcoded-secret-generic", "sql-string-concat", "weak-crypto-md5",
     "weak-crypto-sha1", "js-eval-usage", "js-innerhtml", "python-exec",
     "python-subprocess-shell", "go-sql-format", "rust-unsafe-block",
     "path-traversal-python", "path-traversal-go", "path-traversal-node",
     "command-injection-go", "command-injection-node",
     "ssrf-python", "ssrf-node",
     "insecure-deserialize-python", "insecure-deserialize-java",
     "java-unsafe-reflection", "log-injection"}

\* variant: an id in neither list is classified quality
map_category_UnknownIsQuality(rule_id) ==
    IF rule_id \in security_rules THEN "security" ELSE "quality"

map_category(rule_id) ==
    IF rule_id \in security_rules THEN "security"
    ELSE IF rule_id = "test-todo-skip" THEN "quality"
    ELSE "security"

\* "." in s
HasDot(s) == \E i \in 1..Len(s) : SubSeq(s, i, i) = "."

\* s.rsplit(".", 1)[-1] : the text after the last "."
RECURSIVE AfterLastDot(_, _)
AfterLastDot(s, i) ==
    IF i = 0 THEN s
    ELSE IF SubSeq(s, i, i) = "." THEN Drop(s, i)
    ELSE AfterLastDot(s, i - 1)

\* variant: split(".", 1)[-1], the text after the first "."
StripCheckId_AfterFirstDot(check_id) ==
    IF HasDot(check_id)
    THEN LET first == CHOOSE i \in 1..Len(check_id) :
                          /\ SubSeq(check_id, i, i) = "."
                          /\ \A j \in 1..(i - 1) : SubSeq(check_id, j, j) # "."
         IN Drop(check_id, first)
    ELSE check_id

StripCheckId(check_id) ==
    IF HasDot(check_id) THEN AfterLastDot(check_id, Len(check_id)) ELSE check_id

\* the Finding built from one raw result record
ToFinding(result) ==
    LET check_id == StripCheckId(Get(result, "check_id", "unknown"))
    IN [rule_id  |-> check_id,
        path     |-> Get(result, "path", ""),
        line     |-> Get(Get(result, "start", EmptyDict), "line", 0),
        message  |-> Get(Get(result, "extra", EmptyDict), "message", ""),
        severity |-> map_severity(
                         Get(Get(result, "extra", EmptyDict), "severity", "INFO")),
        category |-> map_category(check_id)]

\* variant: each finding is put in front of the list
parse_semgrep_output_Reversed(output) ==
    LET results == Get(output, "results", << >>)
    IN [i \in 1..Len(results) |-> ToFinding(results[Len(results) + 1 - i])]

\* parse_semgrep_output on a JSON object
parse_semgrep_output(output) ==
    LET results == Get(output, "results", << >>)
    IN [i \in 1..Len(results) |-> ToFinding(results[i])]

\* finding.path[len(tmpdir):].lstrip("/").lstrip("\\") when the path starts
\* with tmpdir, the path unchanged otherwise
NormalizePath(path, dir) ==
    IF StartsWith(path, dir)
    THEN LStrip(LStrip(Drop(path, Len(dir)), "/"), "\\")
    ELSE path

NormalizePaths(findings, dir) ==
    [i \in 1..Len(findings) |->
        [findings[i] EXCEPT !.path = NormalizePath(findings[i].path, dir)]]

(***************************************************************************)
(* Requests, engine results, responses                                     *)
(***************************************************************************)
\* the FileInput records requests are built from: a plain relative path
\* (listed twice in a request when it repeats) with a content that UTF-8
\* writes in three bytes, the empty path, a path climbing out with "..", and
\* a relative path whose first component is a backslash
FileInputs ==
    {[path |-> "src/a.js",  content |-> "A" \o U("0000E9")],
     [path |-> "",          content |-> "A1"],
     [path |-> "../x.js",   content |-> "A1"],
     [path |-> "\\/e.js",   content |-> "A1"]}

FileLists == UNION {[1..n -> FileInputs] : n \in 0..MaxFiles}

RulesConfigs == {"custom", "auto"}

\* a record whose content ends in a lone surrogate (U+D800), as the JSON
\* string "ab\ud800" gives: it has no UTF-8 encoding
UnencodableInput == [path |-> "../x.js", content |-> "ab" \o U("00D800")]

Requests ==
    [files : FileLists \cup {<<UnencodableInput>>}, rules_config : RulesConfigs]

NoRequest == [files |-> << >>, rules_config |-> ""]

\* tempfile.mkdtemp(prefix="semgrep-scan-"): the prefix and a random suffix,
\* under the system's temporary directory
TmpNames == {"/tmp/semgrep-scan-k3x9q_aa", "/tmp/semgrep-scan-p0mz41bb"}

\* elapsed milliseconds a request may measure
Durations == {37}

\* the lexical normalisation of the joined path (".." cancels its parent)
RECURSIVE Collapse(_, _)
Collapse(lex, acc) ==
    IF lex = << >> THEN acc
    ELSE IF Head(lex) = ".." THEN Collapse(Tail(lex), ParentOf(acc))
    ELSE Collapse(Tail(lex), Append(acc, Head(lex)))

\* the path of a FileInput leaves the workspace root `dir`
Escapes(dir, path) ==
    LET target == Collapse(JoinPath(dir, path), << >>)
    IN ~IsPrefix(Parts(dir), target)

\* one raw result record of the engine for the file at `path`
RawResult(path) ==
    [check_id |-> "rules.js-eval-usage",
     path     |-> path,
     start    |-> [line |-> 2, col |-> 3],
     extra    |-> [message |-> "Avoid eval()", severity |-> "ERROR"]]

\* the files under the target directory when the engine looks at it
Visible(f, dir) == {p \in DOMAIN f.files : IsPrefix(Parts(dir), p)}

\* the components of a path joined with "/"
RECURSIVE JoinStr(_)
JoinStr(parts) ==
    IF parts = << >> THEN ""
    ELSE IF Len(parts) = 1 THEN parts[1]
    ELSE parts[1] \o "/" \o JoinStr(Tail(parts))

\* The engine scans the directory it is given and reports a file as
\* target + "/" + relative path.  Its results are for any of the files that
\* lie under the target, whoever wrote them, in any order, and a file can
\* have several results.
ResultLists(dir, f) ==
    LET n == Len(Parts(dir))
        Reported(p) == RawResult(dir \o "/" \o JoinStr(SubSeq(p, n + 1, Len(p))))
    IN UNION {{[i \in 1..k |-> Reported(ps[i])] : ps \in [1..k -> Visible(f, dir)]} :
                 k \in 0..MaxResults}

\* stdout of the engine: its text and what json.loads makes of it
JsonObject(obj) == [text |-> "{...}", json |-> [kind |-> "object", obj |-> obj]]
JsonArray == [text |-> "[]", json |-> [kind |-> "array"]]
NotJson(text) == [text |-> text, json |-> [kind |-> "invalid"]]

ValidStdouts(dir, f) ==
    {JsonObject([results |-> rs, errors |-> << >>]) : rs \in ResultLists(dir, f)}
    \cup {JsonObject([errors |-> << >>]), JsonArray}

\* e with an acute accent (U+00E9)
EAcute == U("0000E9")

\* 204 characters whose 200th is outside ASCII
LongStdout == NotJson(Rep("j", StdoutLimit - 1) \o EAcute \o "TAIL")

\* text json.loads rejects: nothing, 195 characters that UTF-8 writes in 220
\* bytes, and the 204 characters
InvalidStdouts ==
    {NotJson(""), NotJson(Rep("j", 170) \o Rep(EAcute, 25)), LongStdout}

\* 502 characters whose 500th is outside ASCII
LongStderr == Rep("e", StderrLimit - 1) \o EAcute \o "yz"

\* a short message, 490 characters that UTF-8 writes in 530 bytes, and the
\* 502 characters
Stderrs ==
    {"Fatal: invalid rule", Rep("e", 450) \o Rep(EAcute, 40), LongStderr}

\* what the engine leaves when it exits: the return code and the two
\* streams.  subprocess.run(text=True) decodes both as UTF-8; `invalid` names
\* the streams whose bytes are not UTF-8, stdout and stderr being the text of
\* the bytes that are.
Exited(returncode, stdout, stderr, invalid) ==
    [returncode |-> returncode, stdout |-> stdout, stderr |-> stderr,
     invalid |-> invalid]

\* runs in which a stream does not decode: stdout "{}" after a byte 0xFF on
\* exit code 0, and a message followed by a byte 0xFF on stderr, on exit
\* codes 0 and 2
UndecodableResults ==
    {Exited(0, JsonObject([errors |-> << >>]), "", {"stdout"}),
     Exited(0, JsonObject([errors |-> << >>]), "Fatal", {"stderr"}),
     Exited(2, JsonObject([errors |-> << >>]), "Fatal", {"stderr"})}

\* the stdout of a failing engine: text json.loads would accept
FailureStdout == JsonObject([results |-> <<RawResult("src/app.js")>>])

\* the ways the engine can exit when it is run on `dir` of the filesystem f:
\* exit code 0 or 1 with output for the files under dir, exit code 0 with
\* text that is not JSON, exit code 1 with the longest of these, exit code 2
\* with each stderr, death by a signal with the longest, and the undecodable
\* streams
EngineResults(dir, f) ==
    {Exited(rc, so, "", {}) : rc \in {0, 1}, so \in ValidStdouts(dir, f)}
    \cup {Exited(0, so, "", {}) : so \in InvalidStdouts}
    \cup {Exited(1, LongStdout, "", {})}
    \cup {Exited(2, FailureStdout, se, {}) : se \in Stderrs}
    \cup {Exited(-9, FailureStdout, LongStderr, {})}
    \cup UndecodableResults

NoProc == [state |-> "none"]
NoResp == [status |-> 0]

ScanResponse(findings, duration_ms, files_scanned) ==
    [status |-> 200, findings |-> findings, duration_ms |-> duration_ms,
     files_scanned |-> files_scanned]

HTTPException(status_code, detail) ==
    [type |-> "HTTPException", status_code |-> status_code, detail |-> detail]

TimeoutExpired == [type |-> "TimeoutExpired"]

\* any other exception; str(e) is modelled by the name of its cause
OtherException(msg) == [type |-> "Exception", msg |-> msg]

\* variant: the generic clause comes before the TimeoutExpired clause
HandleException_GenericFirst(exc) ==
    IF exc.type = "HTTPException"
    THEN [status |-> exc.status_code, detail |-> exc.detail]
    ELSE [status |-> 500,
          detail |-> IF exc.type = "TimeoutExpired" THEN "timed out" ELSE exc.msg]

\* the except clauses of scan: what the caller receives for an exception
\* raised inside the try block
HandleException(exc) ==
    IF exc.type = "HTTPException"
    THEN [status |-> exc.status_code, detail |-> exc.detail]
    ELSE IF exc.type = "TimeoutExpired"
    THEN [status |-> 504, detail |-> "Semgrep scan timed out"]
    ELSE [status |-> 500, detail |-> exc.msg]

\* variant: only exit code 0 is a success
IsFailureCode_NonZero(returncode) == returncode # 0

\* result.returncode not in (0, 1)
IsFailureCode(returncode) == returncode \notin {0, 1}

\* variant: stderr is not truncated
ToolFailureDetail_Untruncated(stderr) == "Semgrep error: " \o stderr

ToolFailureDetail(stderr) == "Semgrep error: " \o Take(stderr, StderrLimit)

\* variant: stdout is not truncated
ParseFailureDetail_Untruncated(stdout) ==
    "Failed to parse Semgrep output: " \o stdout

ParseFailureDetail(stdout) ==
    "Failed to parse Semgrep output: " \o Take(stdout, StdoutLimit)

\* variant: the distinct paths are counted
FilesScanned_DistinctPaths(request) ==
    Cardinality({request.files[i].path : i \in 1..Len(request.files)})

FilesScanned(request) == Len(request.files)

\* variant: the early return is missing
IsEmptyRequest_Never(request) == FALSE

\* variant: rules.yml is required in every mode
RulesAvailable_AlwaysChecked(rules_config, exists) == exists

\* the rules check: "auto" needs no file, every other mode needs rules.yml
RulesAvailable(rules_config, exists) == rules_config = "auto" \/ exists

\* variant: the timeout is raised while the child is left running
TimedOutProc_LeftRunning == [state |-> "running"]

\* subprocess.run(..., timeout=60) on expiry: the child is killed and waited
\* for before TimeoutExpired is raised
TimedOutProc == [state |-> "killed"]

\* variant: a deletion error replaces the outcome
AfterRelease_Propagates(response, ok) ==
    IF ok THEN response ELSE HandleException(OtherException("OSError"))

\* rmtree(..., ignore_errors=True) raises nothing: the outcome computed
\* before the finally clause is the one the caller receives
AfterRelease(response, ok) == response

\* if not request.files
IsEmptyRequest(request) == request.files = << >>

\* subprocess.run(text=True): decoding stdout or stderr raises
\* UnicodeDecodeError when the bytes are not UTF-8
DecodeFails(result) == result.invalid # {}

\* scan once the engine has exited with `result`: subprocess.run raises or
\* returns; the response or the error, and whether json.loads was called on
\* stdout
AfterEngine(result, dir, request, duration_ms) ==
    IF DecodeFails(result)
    THEN [parsed |-> FALSE,
          resp |-> HandleException(OtherException("UnicodeDecodeError"))]
    ELSE IF IsFailureCode(result.returncode)
    THEN [parsed |-> FALSE,
          resp |-> HandleException(
                       HTTPException(500, ToolFailureDetail(result.stderr)))]
    ELSE IF result.stdout.json.kind = "invalid"
    THEN [parsed |-> TRUE,
          resp |-> HandleException(
                       HTTPException(500, ParseFailureDetail(result.stdout.text)))]
    ELSE IF result.stdout.json.kind # "object"
    THEN [parsed |-> TRUE,
          resp |-> HandleException(OtherException("AttributeError"))]
    ELSE [parsed |-> TRUE,
          resp |-> ScanResponse(
                       NormalizePaths(parse_semgrep_output(result.stdout.json.obj),
                                      dir),
                       duration_ms, FilesScanned(request))]

(***************************************************************************)
(* The scan handler                                                        *)
(***************************************************************************)
Exists(f, path) == path \in f.dirs \/ path \in DOMAIN f.files

\* variant: mkdtemp takes a name without looking at what exists
NameFree_Always(f, name) == TRUE

\* mkdtemp creates the directory exclusively: a name that exists (as a
\* directory or a file) is skipped and another one is drawn
NameFree(f, name) == ~Exists(f, Parts(name))

NoInput == [output |-> EmptyDict, tmpdir |-> NoDir]
Pending == [done |-> FALSE, findings |-> << >>]

ScanInit ==
    /\ fs = InitFs
    /\ rulesExists \in BOOLEAN
    /\ pc = [w \in Workers |-> "idle"]
    /\ req = [w \in Workers |-> NoRequest]
    /\ tmpdir = [w \in Workers |-> NoDir]
    /\ widx = [w \in Workers |-> 1]
    /\ created = [w \in Workers |-> {}]
    /\ proc = [w \in Workers |-> NoProc]
    /\ parsed = [w \in Workers |-> FALSE]
    /\ released = [w \in Workers |-> "no"]
    /\ resp = [w \in Workers |-> NoResp]
    /\ mk = [w \in Workers |-> << >>]
    /\ fd = [w \in Workers |-> NoFile]
    /\ rm = [w \in Workers |-> << >>]

\* no health request has been made
NoRun == [kind |-> "none"]

NoHealth == [pc |-> "idle", run |-> NoRun, version |-> "", resp |-> NoResp]

Init ==
    /\ ScanInit
    /\ nin = NoInput
    /\ nout = Pending
    /\ health = NoHealth

\* A request arrives.  An empty file list is answered at once; otherwise
\* mkdtemp creates a directory under a name nothing in /tmp has.
BeginWith(w, requests) ==
    /\ pc[w] = "idle"
    /\ \E r \in requests :
        /\ req' = [req EXCEPT ![w] = r]
        /\ IF IsEmptyRequest(r)
           THEN /\ resp' = [resp EXCEPT ![w] = ScanResponse(<< >>, 0, 0)]
                /\ pc' = [pc EXCEPT ![w] = "done"]
                /\ UNCHANGED <<fs, tmpdir>>
           ELSE /\ \E name \in TmpNames :
                    /\ NameFree(fs, name)
                    /\ fs' = [fs EXCEPT !.dirs = @ \cup {Parts(name)}]
                    /\ tmpdir' = [tmpdir EXCEPT ![w] = name]
                /\ pc' = [pc EXCEPT ![w] =
                            IF Len(r.files) = 0 THEN "rules" ELSE "write"]
                /\ UNCHANGED resp
    /\ UNCHANGED <<rulesExists, widx, created, proc, parsed, released,
                   nin, nout, health, mk, fd, rm>>

Begin(w) == BeginWith(w, Requests)

\* One iteration of the loop over request.files, first call: the path is
\* joined and Path.mkdir(parents=True, exist_ok=True) makes the parents, one
\* system call at a time.  An OSError ends the request with a 500.
MakeParents(w) ==
    /\ pc[w] = "write"
    /\ LET file == req[w].files[widx[w]]
           lex == JoinPath(tmpdir[w], file.path)
           calls == IF mk[w] = << >> THEN <<MkdirCall(ParentOf(lex), TRUE)>>
                    ELSE mk[w]
           st == PathMkdirStep(fs, calls)
       IN /\ fs' = st.fs
          /\ created' = [created EXCEPT ![w] = @ \cup st.made]
          /\ mk' = [mk EXCEPT ![w] = st.calls]
          /\ IF st.raised # ""
             THEN /\ resp' = [resp EXCEPT ![w] =
                                HandleException(OtherException(st.raised))]
                  /\ pc' = [pc EXCEPT ![w] = "cleanup"]
             ELSE /\ pc' = [pc EXCEPT ![w] =
                              IF st.calls = << >> THEN "open" ELSE "write"]
                  /\ UNCHANGED resp
    /\ UNCHANGED <<rulesExists, req, tmpdir, widx, proc, parsed, released,
                   nin, nout, health, fd, rm>>

\* Second call of the iteration: write_text opens the path, which the kernel
\* resolves anew; the file is created, or cut to no bytes.  A parent that
\* is gone by now raises FileNotFoundError, one that is a file by now
\* NotADirectoryError, a target that is a directory IsADirectoryError.
OpenFileForWrite(w) ==
    /\ pc[w] = "open"
    /\ LET file == req[w].files[widx[w]]
           lex == JoinPath(tmpdir[w], file.path)
           rs == ResolveParent(fs, lex)
           op == OpenForWrite(fs, rs.at, lex)
       IN IF ~rs.ok
          THEN /\ resp' = [resp EXCEPT ![w] =
                             HandleException(OtherException(rs.err))]
               /\ pc' = [pc EXCEPT ![w] = "cleanup"]
               /\ UNCHANGED <<fs, created, fd>>
          ELSE IF ~op.ok
          THEN /\ resp' = [resp EXCEPT ![w] =
                             HandleException(OtherException("IsADirectoryError"))]
               /\ pc' = [pc EXCEPT ![w] = "cleanup"]
               /\ UNCHANGED <<fs, created, fd>>
          ELSE /\ fs' = op.fs
               /\ created' = [created EXCEPT ![w] = @ \cup op.made]
               /\ fd' = [fd EXCEPT ![w] = OpenFile(op.path)]
               /\ pc' = [pc EXCEPT ![w] = "put"]
               /\ UNCHANGED resp
    /\ UNCHANGED <<rulesExists, req, tmpdir, widx, proc, parsed, released,
                   nin, nout, health, mk, rm>>

\* Third call of the iteration: write_text encodes the content and writes
\* the bytes to the file it opened, then closes it.  A content that cannot
\* be encoded raises UnicodeEncodeError and the file is left as it was
\* opened.  The bytes go to the file the descriptor names: when the path has
\* been unlinked since, no file of the tree changes.
WriteFile(w) ==
    /\ pc[w] = "put"
    /\ LET file == req[w].files[widx[w]]
       IN IF ~Encodable(file.content)
          THEN /\ resp' = [resp EXCEPT ![w] =
                             HandleException(OtherException("UnicodeEncodeError"))]
               /\ pc' = [pc EXCEPT ![w] = "cleanup"]
               /\ UNCHANGED <<fs, widx>>
          ELSE /\ fs' = IF fd[w].linked
                        THEN WriteBytes(fs, fd[w].path, Encode(file.content))
                        ELSE fs
               /\ widx' = [widx EXCEPT ![w] = @ + 1]
               /\ pc' = [pc EXCEPT ![w] =
                           IF widx[w] = Len(req[w].files) THEN "rules" ELSE "write"]
               /\ UNCHANGED resp
    /\ fd' = [fd EXCEPT ![w] = NoFile]
    /\ UNCHANGED <<rulesExists, req, tmpdir, created, proc, parsed, released,
                   nin, nout, health, mk, rm>>

\* Determine rules config: "auto", or the bundled rules.yml, which must exist
SelectRules(w) ==
    /\ pc[w] = "rules"
    /\ IF RulesAvailable(req[w].rules_config, rulesExists)
       THEN /\ pc' = [pc EXCEPT ![w] = "spawn"]
            /\ UNCHANGED resp
       ELSE /\ resp' = [resp EXCEPT ![w] =
                          HandleException(HTTPException(500, "rules.yml not found"))]
            /\ pc' = [pc EXCEPT ![w] = "cleanup"]
    /\ UNCHANGED <<fs, rulesExists, req, tmpdir, widx, created, proc,
                   parsed, released, nin, nout, health, mk, fd, rm>>

\* subprocess.run starts the engine; a missing executable raises OSError
Spawn(w) ==
    /\ pc[w] = "spawn"
    /\ \/ /\ proc' = [proc EXCEPT ![w] = [state |-> "running"]]
          /\ pc' = [pc EXCEPT ![w] = "engine"]
          /\ UNCHANGED resp
       \/ /\ proc' = [proc EXCEPT ![w] = [state |-> "notstarted"]]
          /\ resp' = [resp EXCEPT ![w] =
                        HandleException(OtherException("FileNotFoundError"))]
          /\ pc' = [pc EXCEPT ![w] = "cleanup"]
    /\ UNCHANGED <<fs, rulesExists, req, tmpdir, widx, created, parsed,
                   released, nin, nout, health, mk, fd, rm>>

\* The engine exits within the timeout; scan classifies the result, parses
\* and normalizes the output.
EngineExitWith(w, results, durations) ==
    /\ pc[w] = "engine"
    /\ \E result \in results, d \in durations :
        LET after == AfterEngine(result, tmpdir[w], req[w], d)
        IN /\ proc' = [proc EXCEPT ![w] = [state |-> "exited", result |-> result]]
           /\ parsed' = [parsed EXCEPT ![w] = after.parsed]
           /\ resp' = [resp EXCEPT ![w] = after.resp]
    /\ pc' = [pc EXCEPT ![w] = "cleanup"]
    /\ UNCHANGED <<fs, rulesExists, req, tmpdir, widx, created, released,
                   nin, nout, health, mk, fd, rm>>

EngineExit(w) ==
    EngineExitWith(w, EngineResults(tmpdir[w], fs), Durations)

\* The engine runs past timeout=60: subprocess.run kills it and raises
\* TimeoutExpired.
EngineTimeout(w) ==
    /\ pc[w] = "engine"
    /\ proc' = [proc EXCEPT ![w] = TimedOutProc]
    /\ resp' = [resp EXCEPT ![w] = HandleException(TimeoutExpired)]
    /\ pc' = [pc EXCEPT ![w] = "cleanup"]
    /\ UNCHANGED <<fs, rulesExists, req, tmpdir, widx, created, parsed,
                   released, nin, nout, health, mk, fd, rm>>

\* finally: shutil.rmtree(tmpdir, ignore_errors=True), one system call at a
\* time.  rmtree lists tmpdir; in the directory it is inside of, it takes
\* the entries of the listing one by one, unlinks a file and goes into a
\* directory; when the listing is done it leaves the directory and removes
\* it.  An entry made after the listing is never looked at: the directory
\* then stays, and those above it.  No error is raised: once tmpdir has been
\* tried the response or the error reaches the caller.  `refusals` says
\* whether the system can refuse to remove a directory that is empty.
CleanupWith(w, refusals) ==
    /\ pc[w] = "cleanup"
    /\ IF rm[w] = << >>
       THEN /\ rm' = [rm EXCEPT ![w] = <<Frame(fs, Parts(tmpdir[w]))>>]
            /\ UNCHANGED <<fs, fd, released, resp, pc>>
       ELSE LET top == Head(rm[w])
                outer == Tail(rm[w])
            IN IF top.todo # {}
               THEN \E e \in top.todo :
                      LET path == Append(top.dir, e.name)
                          rest == <<[top EXCEPT !.todo = @ \ {e}]>> \o outer
                      IN IF e.is_dir
                         THEN /\ rm' = [rm EXCEPT ![w] = <<Frame(fs, path)>> \o rest]
                              /\ UNCHANGED <<fs, fd, released, resp, pc>>
                         ELSE /\ fs' = OsUnlink(fs, path)
                              /\ fd' = [v \in Workers |->
                                           IF fd[v].path = path
                                           THEN [fd[v] EXCEPT !.linked = FALSE]
                                           ELSE fd[v]]
                              /\ rm' = [rm EXCEPT ![w] = rest]
                              /\ UNCHANGED <<released, resp, pc>>
               ELSE \E refused \in refusals :
                      LET r == OsRmdir(fs, top.dir, refused)
                          failed == ~r.ok \/ released[w] = "failed"
                      IN /\ fs' = r.fs
                         /\ rm' = [rm EXCEPT ![w] = outer]
                         /\ UNCHANGED fd
                         /\ IF outer = << >>
                            THEN /\ released' = [released EXCEPT ![w] =
                                                   IF failed THEN "failed" ELSE "ok"]
                                 /\ resp' = [resp EXCEPT ![w] = AfterRelease(@, ~failed)]
                                 /\ pc' = [pc EXCEPT ![w] = "done"]
                            ELSE /\ released' = [released EXCEPT ![w] =
                                                   IF failed THEN "failed" ELSE @]
                                 /\ UNCHANGED <<resp, pc>>
    /\ UNCHANGED <<rulesExists, req, tmpdir, widx, created, proc, parsed,
                   nin, nout, health, mk>>

Cleanup(w) == CleanupWith(w, BOOLEAN)

\* The caller has the response; the worker takes the next request.
Return(w) ==
    /\ pc[w] = "done"
    /\ pc' = [pc EXCEPT ![w] = "idle"]
    /\ req' = [req EXCEPT ![w] = NoRequest]
    /\ tmpdir' = [tmpdir EXCEPT ![w] = NoDir]
    /\ widx' = [widx EXCEPT ![w] = 1]
    /\ created' = [created EXCEPT ![w] = {}]
    /\ proc' = [proc EXCEPT ![w] = NoProc]
    /\ parsed' = [parsed EXCEPT ![w] = FALSE]
    /\ released' = [released EXCEPT ![w] = "no"]
    /\ resp' = [resp EXCEPT ![w] = NoResp]
    /\ UNCHANGED <<fs, rulesExists, nin, nout, health, mk, fd, rm>>

\* one server process: its requests run one after the other
MainWorker == "w1"

Next ==
    \/ Begin(MainWorker)
    \/ MakeParents(MainWorker)
    \/ OpenFileForWrite(MainWorker)
    \/ WriteFile(MainWorker)
    \/ SelectRules(MainWorker)
    \/ Spawn(MainWorker)
    \/ EngineExit(MainWorker)
    \/ EngineTimeout(MainWorker)
    \/ Cleanup(MainWorker)
    \/ Return(MainWorker)

Spec == Init /\ [][Next]_vars

(***************************************************************************)
(* Several server processes on one host: they share /tmp, and the steps of *)
(* their scan handlers interleave in any order.  The removals that fail    *)
(* here are those another process makes fail.                              *)
(***************************************************************************)
\* requests of the concurrent runs: a file written twice, a file in another
\* directory, and a path that names a file of the other workspace from
\* outside, with a longer content
ConcRequests ==
    {[files |-> <<[path |-> "src/a.js", content |-> "A1"],
                  [path |-> "src/a.js", content |-> "A2"]>>,
      rules_config |-> "auto"],
     [files |-> <<[path |-> "lib/b.py", content |-> "B" \o U("0000E9")]>>,
      rules_config |-> "auto"],
     [files |-> <<[path |-> "../semgrep-scan-k3x9q_aa/src/a.js",
                   content |-> "EEEE"]>>,
      rules_config |-> "auto"]}

\* engine results of the concurrent runs: findings for any of the files, or
\* a tool failure
ConcEngineResults(dir, f) ==
    {Exited(0, JsonObject([results |-> rs, errors |-> << >>]), "", {}) :
        rs \in ResultLists(dir, f)}
    \cup {Exited(2, FailureStdout, "Fatal: invalid rule", {})}

InitConc ==
    /\ ScanInit
    /\ rulesExists = TRUE
    /\ nin = NoInput
    /\ nout = Pending
    /\ health = NoHealth

NextConc ==
    \E w \in Workers :
        \/ BeginWith(w, ConcRequests)
        \/ MakeParents(w)
        \/ OpenFileForWrite(w)
        \/ WriteFile(w)
        \/ SelectRules(w)
        \/ Spawn(w)
        \/ EngineExitWith(w, ConcEngineResults(tmpdir[w], fs), {0})
        \/ EngineTimeout(w)
        \/ CleanupWith(w, {FALSE})
        \/ Return(w)

SpecConc == InitConc /\ [][NextConc]_vars

(***************************************************************************)
(* The result normalizer taken alone: parse_semgrep_output followed by the *)
(* path rewriting of scan, applied to bounded engine outputs               *)
(***************************************************************************)
\* "warn" dotless-i "ng" and "error" long-s: str.upper() turns them into
\* WARNING and ERRORS
DotlessToken == "warn" \o DotlessI \o "ng"
LongSToken == "error" \o U("00017F")

SeverityTokens ==
    {"ERROR", "WARNING", "INFO", "error", "warning", "info", DotlessToken,
     "WaRnInG", "CRITICAL", "", LongSToken, " INFO"}

CheckIds ==
    {"js-eval-usage", "rules.test-todo-skip", "test-todo-skip",
     "semgrep-service.rules.sql-string-concat", "rules.not-a-known-rule",
     "trailing.", "TEST-TODO-SKIP"}

NormDir == "/tmp/semgrep-scan-k3x9q_aa"

RawPaths ==
    {NormDir \o "/src/a.js", "src/a.js", NormDir \o "/\\/e.js", NormDir,
     NormDir \o "-old/src/a.js", "/tmp/semgrep-scan-p0mz41bb/a.js"}

BaseRecord == RawResult(NormDir \o "/src/a.js")

\* raw result records: the base record with one field varied or left out
RawRecords ==
    {[BaseRecord EXCEPT !.extra.severity = t] : t \in SeverityTokens}
    \cup {[BaseRecord EXCEPT !.extra = [message |-> "Avoid eval()"]]}
    \cup {[check_id |-> "rules.js-innerhtml", path |-> "src/b.js",
           start |-> [line |-> 7, col |-> 1]]}
    \cup {[BaseRecord EXCEPT !.check_id = c] : c \in CheckIds}
    \cup {[path |-> "src/c.js", start |-> [line |-> 1, col |-> 1],
           extra |-> [message |-> "no id", severity |-> "WARNING"]]}
    \cup {[BaseRecord EXCEPT !.path = q] : q \in RawPaths}
    \cup {[check_id |-> "rules.python-exec",
           extra |-> [message |-> "no path", severity |-> "INFO"]]}
    \cup {[BaseRecord EXCEPT !.start = [col |-> 4]]}

NormOutputs ==
    {[results |-> rs] : rs \in UNION {[1..n -> RawRecords] : n \in 0..MaxResults}}
    \cup {[errors |-> << >>]}

NormInputs == [output : NormOutputs, tmpdir : TmpNames]

InitN ==
    /\ ScanInit
    /\ rulesExists = TRUE
    /\ nin \in NormInputs
    /\ nout = Pending
    /\ health = NoHealth

\* findings = parse_semgrep_output(output), then the paths are rewritten
Normalize ==
    /\ ~nout.done
    /\ nout' = [done |-> TRUE,
                findings |-> NormalizePaths(parse_semgrep_output(nin.output),
                                            nin.tmpdir)]
    /\ UNCHANGED <<nin, health, scanVars>>

NextN == Normalize

SpecNormalize == InitN /\ [][NextN]_vars

(***************************************************************************)
(* The health operation: GET /health asks the engine for its version       *)
(***************************************************************************)
\* the characters str.isspace() holds for: U+0009..U+000D, U+001C..U+001F,
\* the space, U+0085, U+00A0, U+1680, U+2000..U+200A, U+2028, U+2029, U+202F,
\* U+205F, U+3000
Whitespace ==
    {
     "\t", "\n", "", "\f", "\r", "",
     "", "", "", " ", U("000085"), U("0000A0"),
     U("001680"), U("002000"), U("002001"), U("002002"), U("002003"), U("002004"),
     U("002005"), U("002006"), U("002007"), U("002008"), U("002009"), U("00200A"),
     U("002028"), U("002029"), U("00202F"), U("00205F"), U("003000")}

\* s.strip(): leading and trailing whitespace characters are removed
RECURSIVE Strip(_)
Strip(s) ==
    LET lead == {c \in Whitespace : StartsWith(s, c)}
        trail == {c \in Whitespace :
                     Len(s) >= Len(c) /\ SubSeq(s, Len(s) - Len(c) + 1, Len(s)) = c}
    IN IF lead # {}
       THEN Strip(Drop(s, Len(CHOOSE c \in lead : TRUE)))
       ELSE IF trail # {}
       THEN Strip(SubSeq(s, 1, Len(s) - Len(CHOOSE c \in trail : TRUE)))
       ELSE s

\* what `semgrep --version` can print on stdout.  subprocess.run captures
\* stdout and stderr as text: `invalid` of a run names the streams whose
\* bytes are not UTF-8, as a stdout of 1.45.0, a byte 0xFF and a newline
VersionCores == {"1.45.0", "1.50.0", "", "usage: semgrep"}

VersionStdouts ==
    {l \o c \o t : l \in {"", " ", "\n"}, c \in VersionCores,
                   t \in {"", "\n", " \n", "\f\n"}}

\* exit codes of `semgrep --version`: success, failure, killed by a signal
VersionCodes == {0, 2, -11}

\* the ways subprocess.run(["semgrep", "--version"], timeout=10) can end
VersionRuns ==
    {[kind |-> "missing"], [kind |-> "timeout"]}
        \cup {[kind |-> "exited", returncode |-> c, stdout |-> o,
               invalid |-> {}] :
                  c \in VersionCodes, o \in VersionStdouts}
        \cup {[kind |-> "exited", returncode |-> c, stdout |-> "1.45.0\n",
               invalid |-> {i}] : c \in VersionCodes, i \in {"stdout", "stderr"}}

\* get_semgrep_version: the stripped stdout of a run that returned, whatever
\* its return code; "unknown" when subprocess.run raised: the executable is
\* missing, the run timed out, or a stream is not UTF-8 (UnicodeDecodeError)
get_semgrep_version(run) ==
    IF run.kind = "exited" /\ ~DecodeFails(run)
    THEN Strip(run.stdout) ELSE "unknown"

HealthResponse(status, semgrep_version) ==
    [status |-> status, semgrep_version |-> semgrep_version]

InitHealth ==
    /\ ScanInit
    /\ nin = NoInput
    /\ nout = Pending
    /\ health = NoHealth

\* GET /health arrives: the handler calls get_semgrep_version()
HealthBegin ==
    /\ health.pc = "idle"
    /\ health' = [health EXCEPT !.pc = "spawn"]
    /\ UNCHANGED <<nin, nout, scanVars>>

\* subprocess.run starts the engine, or raises FileNotFoundError when the
\* executable is missing
VersionSpawn ==
    /\ health.pc = "spawn"
    /\ \/ health' = [health EXCEPT !.pc = "wait",
                                   !.run = [kind |-> "running"]]
       \/ health' = [health EXCEPT
                         !.pc = "respond",
                         !.run = [kind |-> "missing"],
                         !.version = get_semgrep_version([kind |-> "missing"])]
    /\ UNCHANGED <<nin, nout, scanVars>>

\* the engine exits within 10 seconds, with any return code
VersionExit ==
    /\ health.pc = "wait"
    /\ \E run \in {r \in VersionRuns : r.kind = "exited"} :
        health' = [health EXCEPT !.pc = "respond",
                                 !.run = run,
                                 !.version = get_semgrep_version(run)]
    /\ UNCHANGED <<nin, nout, scanVars>>

\* the engine runs past 10 seconds: killed, TimeoutExpired is raised
VersionTimeout ==
    /\ health.pc = "wait"
    /\ health' = [health EXCEPT
                      !.pc = "respond",
                      !.run = [kind |-> "timeout"],
                      !.version = get_semgrep_version([kind |-> "timeout"])]
    /\ UNCHANGED <<nin, nout, scanVars>>

\* return HealthResponse(status="ok", semgrep_version=...)
HealthReturn ==
    /\ health.pc = "respond"
    /\ health' = [health EXCEPT
                      !.pc = "done",
                      !.resp = HealthResponse("ok", health.version)]
    /\ UNCHANGED <<nin, nout, scanVars>>

NextHealth ==
    \/ HealthBegin
    \/ VersionSpawn
    \/ VersionExit
    \/ VersionTimeout
    \/ HealthReturn

SpecHealth == InitHealth /\ [][NextHealth]_vars

(***************************************************************************)
(* Properties                                                              *)
(***************************************************************************)
Returned(w) == pc[w] = "done"

HasWorkspace(w) == tmpdir[w] # NoDir

Root(w) == Parts(tmpdir[w])

EngineExited(w) == proc[w].state = "exited"

\* something exists at or below the workspace root of w
WorkspaceRemains(w) ==
    \E p \in fs.dirs \cup DOMAIN fs.files : IsPrefix(Root(w), p)

\* C1 (as stated): once a request that created a workspace has returned its
\* response or error, the workspace directory no longer exists.
C1_WorkspaceGoneOnReturn ==
    \A w \in Workers :
        (Returned(w) /\ HasWorkspace(w)) => ~Exists(fs, Root(w))

\* C1 (amended): once a request that created a workspace has returned, on
\* every exit path, rmtree has run on the workspace; nothing of the workspace
\* remains unless the deletion itself failed (the failure is suppressed).
C1_ReleasedOnEveryExit ==
    \A w \in Workers :
        (Returned(w) /\ HasWorkspace(w)) =>
            /\ released[w] \in {"ok", "failed"}
            /\ released[w] = "ok" => ~WorkspaceRemains(w)

\* a request that wrote files and timed out has returned, its workspace gone
C1_Witness ==
    \E w \in Workers :
        /\ Returned(w) /\ HasWorkspace(w)
        /\ created[w] # {}
        /\ resp[w].status = 504
        /\ released[w] = "ok"
        /\ ~WorkspaceRemains(w)

\* both streams of the engine that w ran are UTF-8 text
StreamsDecode(w) == proc[w].result.invalid = {}

DecodeErrorDetail == "UnicodeDecodeError"

\* C2 (as stated): when the engine exits with 0 or 1 and its stdout is text
\* that json.loads accepts, scan returns a successful response with the
\* normalized findings.
C2_ParsableOutputIsSuccess ==
    \A w \in Workers :
        (/\ Returned(w) /\ EngineExited(w)
         /\ proc[w].result.returncode \in {0, 1}
         /\ "stdout" \notin proc[w].result.invalid
         /\ proc[w].result.stdout.json.kind # "invalid")
        => resp[w].status = 200

\* C2 (amended): when the engine exits with 0 or 1, both of its streams are
\* UTF-8 text and its stdout parses as a JSON object (of well-formed result
\* records), scan returns a successful response with one normalized finding
\* per result record; exit code 1 is not an error.
C2_ObjectOutputIsSuccess ==
    \A w \in Workers :
        (/\ Returned(w) /\ EngineExited(w)
         /\ proc[w].result.returncode \in {0, 1}
         /\ StreamsDecode(w)
         /\ proc[w].result.stdout.json.kind = "object")
        => /\ resp[w].status = 200
           /\ LET results == Get(proc[w].result.stdout.json.obj, "results", << >>)
              IN /\ Len(resp[w].findings) = Len(results)
                 /\ \A i \in 1..Len(results) :
                       /\ resp[w].findings[i].rule_id = "js-eval-usage"
                       /\ resp[w].findings[i].severity = "error"
                       /\ resp[w].findings[i].line = results[i].start.line

\* exit code 1 with a finding has been answered with 200
C2_Witness ==
    \E w \in Workers :
        /\ Returned(w) /\ EngineExited(w)
        /\ proc[w].result.returncode = 1
        /\ resp[w].status = 200
        /\ Len(resp[w].findings) >= 1

\* p is a prefix of s that ends where a character of s ends
CharPrefix(s, p) ==
    /\ StartsWith(s, p)
    /\ \/ Len(p) = Len(s)
       \/ IsCharStart(s, Len(p) + 1)

ToolFailurePrefix == "Semgrep error: "

\* the detail of the response of w is the tool-failure message with the first
\* 500 characters of stderr, all of it when it is shorter
CarriesStderrExcerpt(w) ==
    /\ StartsWith(resp[w].detail, ToolFailurePrefix)
    /\ LET excerpt == Drop(resp[w].detail, Len(ToolFailurePrefix))
       IN /\ StrLen(excerpt) <= StderrLimit
          /\ CharPrefix(proc[w].result.stderr, excerpt)
          /\ \/ excerpt = proc[w].result.stderr
             \/ StrLen(excerpt) = StderrLimit

\* C3 (amended): when the engine exits with a code other than 0 and 1, the
\* request ends with a 500 and stdout is never parsed; the detail carries the
\* first 500 characters of stderr (all of it when it is shorter) when both
\* streams are UTF-8 text, and the decoding error otherwise.
C3_ToolFailureOfDecodedStreams ==
    \A w \in Workers :
        (/\ Returned(w) /\ EngineExited(w)
         /\ proc[w].result.returncode \notin {0, 1})
        => /\ resp[w].status = 500
           /\ "findings" \notin DOMAIN resp[w]
           /\ ~parsed[w]
           /\ IF StreamsDecode(w) THEN CarriesStderrExcerpt(w)
              ELSE resp[w].detail = DecodeErrorDetail

\* C3 (as stated): when the engine exits with a code other than 0 and 1, the
\* request ends with a 500 whose detail carries the first 500 characters of
\* stderr (all of it when it is shorter), and stdout is never parsed.
C3_ToolFailure ==
    \A w \in Workers :
        (/\ Returned(w) /\ EngineExited(w)
         /\ proc[w].result.returncode \notin {0, 1})
        => /\ resp[w].status = 500
           /\ StartsWith(resp[w].detail, ToolFailurePrefix)
           /\ LET excerpt == Drop(resp[w].detail, Len(ToolFailurePrefix))
              IN /\ StrLen(excerpt) <= StderrLimit
                 /\ CharPrefix(proc[w].result.stderr, excerpt)
                 /\ \/ excerpt = proc[w].result.stderr
                    \/ StrLen(excerpt) = StderrLimit
           /\ ~parsed[w]

\* a failure code with more than 500 characters of stderr, some of them
\* outside ASCII, and a stdout that json.loads would accept
C3_Witness ==
    \E w \in Workers :
        /\ Returned(w) /\ EngineExited(w)
        /\ proc[w].result.returncode = -9
        /\ StrLen(proc[w].result.stderr) > StderrLimit
        /\ Len(proc[w].result.stderr) > StrLen(proc[w].result.stderr)
        /\ proc[w].result.stdout.json.kind = "object"
        /\ resp[w].status = 500

\* C4: when the engine runs past the timeout, the request ends with a 504,
\* never a 500 and never a success.
C4_TimeoutIs504 ==
    \A w \in Workers :
        (Returned(w) /\ proc[w].state = "killed") =>
            /\ resp[w].status = 504
            /\ "findings" \notin DOMAIN resp[w]

C4_Witness ==
    \E w \in Workers :
        Returned(w) /\ proc[w].state = "killed" /\ resp[w].status = 504

\* a file record of the request of w resolves outside its workspace root
HasEscapingPath(w) ==
    \E i \in 1..Len(req[w].files) : Escapes(tmpdir[w], req[w].files[i].path)

\* C5: a request with a file record whose path resolves outside the
\* workspace root is rejected with an error, and the engine is never invoked
\* for it.
C5_EscapeRejectedBeforeEngine ==
    \A w \in Workers :
        (HasWorkspace(w) /\ HasEscapingPath(w)) =>
            /\ proc[w].state = "none"
            /\ Returned(w) => resp[w].status >= 400

\* C6: everything created while writing the files of a request lies inside
\* the workspace root of that request.
C6_WritesStayInWorkspace ==
    \A w \in Workers :
        \A p \in created[w] : IsPrefix(Root(w), p) /\ p # Root(w)

\* C7: a request with no files is answered findings = [], durationMs = 0,
\* filesScanned = 0; no workspace is created and the engine is not invoked,
\* whatever the ruleset mode and whether or not rules.yml exists.
C7_EmptyRequest ==
    \A w \in Workers :
        (Returned(w) /\ req[w].files = << >>) =>
            /\ resp[w] = [status |-> 200, findings |-> << >>,
                          duration_ms |-> 0, files_scanned |-> 0]
            /\ ~HasWorkspace(w)
            /\ proc[w].state = "none"
            /\ released[w] = "no"

\* an empty request in custom mode, while rules.yml is missing, was answered
C7_Witness ==
    \E w \in Workers :
        /\ Returned(w) /\ req[w].files = << >>
        /\ req[w].rules_config = "custom" /\ ~rulesExists
        /\ resp[w].status = 200

\* C8: in every successful response files_scanned is the number of file
\* records of the request, repeated paths counted separately.
C8_FilesScannedIsCount ==
    \A w \in Workers :
        (Returned(w) /\ resp[w].status = 200) =>
            resp[w].files_scanned = Len(req[w].files)

\* two records with the same path, and fewer findings than records
C8_Witness ==
    \E w \in Workers :
        /\ Returned(w) /\ resp[w].status = 200
        /\ Len(req[w].files) = 2
        /\ req[w].files[1].path = req[w].files[2].path
        /\ Len(resp[w].findings) < 2
        /\ resp[w].files_scanned = 2

\* C9: no finding of a successful response has a path that begins with the
\* workspace root or with a path separator.
C9_FindingPathsRelative ==
    \A w \in Workers :
        (Returned(w) /\ resp[w].status = 200 /\ HasWorkspace(w)) =>
            \A i \in 1..Len(resp[w].findings) :
                /\ ~StartsWith(resp[w].findings[i].path, tmpdir[w])
                /\ ~StartsWith(resp[w].findings[i].path, "/")

LowerChar(c) ==
    LET at == {i \in 1..Len(Uppers) : SubSeq(Uppers, i, i) = c}
    IN IF at = {} THEN c ELSE LET i == CHOOSE j \in at : TRUE
                              IN SubSeq(Lowers, i, i)

RECURSIVE Lower(_)
Lower(s) ==
    IF s = "" THEN ""
    ELSE LET c == FirstChar(s) IN LowerChar(c) \o Lower(Drop(s, Len(c)))

Severities == {"error", "warning", "info"}

\* the severity the mapping rule gives a raw result record
ExpectedSeverity(result) ==
    LET extra == Get(result, "extra", EmptyDict)
    IN IF "severity" \notin DOMAIN extra THEN "info"
       ELSE LET low == Lower(extra.severity)
            IN IF low \in Severities THEN low ELSE "info"

\* C10 (as stated): the severity of every produced finding is error, warning
\* or info: ERROR, WARNING, INFO in any letter case map to error, warning,
\* info, and every other token, or a missing one, maps to info.
C10_SeverityTotalClosed ==
    nout.done =>
        LET results == Get(nin.output, "results", << >>)
        IN \A i \in 1..Len(nout.findings) :
              /\ nout.findings[i].severity \in Severities
              /\ nout.findings[i].severity = ExpectedSeverity(results[i])

\* the token with every dotless i replaced by "i"
RECURSIVE Dotted(_)
Dotted(s) ==
    IF s = "" THEN ""
    ELSE LET c == FirstChar(s)
         IN (IF c = DotlessI THEN "i" ELSE c) \o Dotted(Drop(s, Len(c)))

\* the severity of a raw result record when dotless i counts as a letter
\* case of I
ExpectedSeverityUpper(result) ==
    LET extra == Get(result, "extra", EmptyDict)
    IN IF "severity" \notin DOMAIN extra THEN "info"
       ELSE LET low == Lower(Dotted(extra.severity))
            IN IF low \in Severities THEN low ELSE "info"

\* C10 (amended): the severity of every produced finding is error, warning
\* or info: a token that is ERROR, WARNING or INFO up to letter case maps to
\* error, warning, info, where dotless i (U+0131) counts as a letter case of
\* I because str.upper() turns it into I; every other token, or a missing
\* one, maps to info.
C10_SeverityByUpperCase ==
    nout.done =>
        LET results == Get(nin.output, "results", << >>)
        IN \A i \in 1..Len(nout.findings) :
              /\ nout.findings[i].severity \in Severities
              /\ nout.findings[i].severity = ExpectedSeverityUpper(results[i])

\* the token with a dotless i and a record without severity have been mapped
C10_Witness ==
    /\ nout.done
    /\ Len(nout.findings) = 2
    /\ "extra" \in DOMAIN nin.output.results[1]
    /\ "severity" \in DOMAIN nin.output.results[1].extra
    /\ nin.output.results[1].extra.severity = DotlessToken
    /\ nout.findings[1].severity = "warning"
    /\ "extra" \notin DOMAIN nin.output.results[2]
    /\ nout.findings[2].severity = "info"

\* the raw results of the normalizer's input
NormResults == Get(nin.output, "results", << >>)

\* C11: the category of a finding is quality exactly when its rule id is
\* test-todo-skip, and security for every other id, known or not.
C11_CategoryDefaultsToSecurity ==
    nout.done =>
        \A i \in 1..Len(nout.findings) :
            /\ nout.findings[i].category \in {"security", "quality"}
            /\ nout.findings[i].category = "quality"
                   <=> nout.findings[i].rule_id = "test-todo-skip"

\* the reserved id gave quality; an id of no list and the reserved id in
\* upper case gave security
C11_Witness ==
    /\ nout.done
    /\ Len(nout.findings) = 2
    /\ nout.findings[1].rule_id = "test-todo-skip"
    /\ nout.findings[1].category = "quality"
    /\ nout.findings[2].rule_id \in {"not-a-known-rule", "TEST-TODO-SKIP"}
    /\ nout.findings[2].category = "security"

EndsWith(s, t) == Len(s) >= Len(t) /\ Drop(s, Len(s) - Len(t)) = t

\* C12: the rule id of a finding is the text after the last "." of the raw
\* identifier, the identifier itself when it has no ".", and "unknown" when
\* the raw result has no identifier; the category is that of the stripped id.
C12_RuleIdIsLastSegment ==
    nout.done =>
        \A i \in 1..Len(nout.findings) :
            LET raw == NormResults[i]
                id == nout.findings[i].rule_id
            IN /\ IF "check_id" \notin DOMAIN raw THEN id = "unknown"
                  ELSE /\ \A k \in 1..Len(id) : SubSeq(id, k, k) # "."
                       /\ IF \E k \in 1..Len(raw.check_id) :
                                  SubSeq(raw.check_id, k, k) = "."
                          THEN EndsWith(raw.check_id, "." \o id)
                          ELSE id = raw.check_id
               /\ nout.findings[i].category =
                      IF id = "test-todo-skip" THEN "quality" ELSE "security"

\* a two-level prefix was stripped, a prefixed reserved id was classified by
\* its stripped form
C12_Witness ==
    /\ nout.done
    /\ Len(nout.findings) = 2
    /\ "check_id" \in DOMAIN NormResults[1]
    /\ NormResults[1].check_id = "semgrep-service.rules.sql-string-concat"
    /\ nout.findings[1].rule_id = "sql-string-concat"
    /\ "check_id" \in DOMAIN NormResults[2]
    /\ NormResults[2].check_id = "rules.test-todo-skip"
    /\ nout.findings[2].rule_id = "test-todo-skip"
    /\ nout.findings[2].category = "quality"


\* the line the copying rule gives a raw result record
ExpectedLine(result) ==
    IF "start" \in DOMAIN result /\ "line" \in DOMAIN result.start
    THEN result.start.line ELSE 0

ExpectedMessage(result) ==
    IF "extra" \in DOMAIN result /\ "message" \in DOMAIN result.extra
    THEN result.extra.message ELSE ""

\* C20: the findings are one per raw result record, in the engine's order:
\* the i-th finding carries the line (0 when absent), the message and the
\* severity of the i-th raw result.
C20_OneToOneInOrder ==
    nout.done =>
        /\ Len(nout.findings) = Len(NormResults)
        /\ \A i \in 1..Len(nout.findings) :
              /\ nout.findings[i].line = ExpectedLine(NormResults[i])
              /\ nout.findings[i].message = ExpectedMessage(NormResults[i])
              /\ nout.findings[i].severity = ExpectedSeverityUpper(NormResults[i])

\* two different records, the first without a line: each finding is at the
\* position of its raw result
C20_Witness ==
    /\ nout.done
    /\ Len(NormResults) = 2
    /\ "start" \in DOMAIN NormResults[1]
    /\ "line" \notin DOMAIN NormResults[1].start
    /\ NormResults[2] = [check_id |-> "rules.js-innerhtml", path |-> "src/b.js",
                         start |-> [line |-> 7, col |-> 1]]
    /\ nout.findings[1].line = 0
    /\ nout.findings[2].line = 7
    /\ nout.findings[2].rule_id = "js-innerhtml"


ParseFailurePrefix == "Failed to parse Semgrep output: "

\* stdout of the engine that w ran is not JSON: its bytes are not UTF-8, or
\* json.loads rejects the text
StdoutUnparsable(w) ==
    \/ "stdout" \in proc[w].result.invalid
    \/ proc[w].result.stdout.json.kind = "invalid"

\* the detail of the response of w is the parse-failure message with the
\* first 200 characters of stdout, all of it when it is shorter
CarriesStdoutExcerpt(w) ==
    /\ StartsWith(resp[w].detail, ParseFailurePrefix)
    /\ LET excerpt == Drop(resp[w].detail, Len(ParseFailurePrefix))
       IN /\ StrLen(excerpt) <= StdoutLimit
          /\ CharPrefix(proc[w].result.stdout.text, excerpt)
        /\ Returned(w) /\ EngineExited(w)
        /\ proc[w].result.returncode = 1
        /\ proc[w].result.stdout.json.kind = "invalid"
        /\ StrLen(proc[w].result.stdout.text) > StdoutLimit
        /\ Len(proc[w].result.stdout.text) > StrLen(proc[w].result.stdout.text)
        /\ resp[w].status = 500


ConfigErrorDetail == "rules.yml not found"

\* the loop over request.files ran to its end
AllFilesWritten(w) == widx[w] > Len(req[w].files)

\* C14 (as stated): a non-empty request in custom mode, while rules.yml is
\* missing, fails with the configuration error and the engine is never
\* invoked.
C14_CustomWithoutRulesIsConfigError ==
    \A w \in Workers :
        (HasWorkspace(w) /\ req[w].rules_config = "custom" /\ ~rulesExists) =>
            /\ proc[w].state = "none"
            /\ Returned(w) =>
                  resp[w].status = 500 /\ resp[w].detail = ConfigErrorDetail

\* C14 (amended): a non-empty request in custom mode, while rules.yml is
\* missing, fails with a 500 and the engine is never invoked; the error is
\* the configuration error when the files were all written, the write
\* error otherwise.  In auto mode no request fails with the configuration
\* error, whether or not rules.yml exists.
C14_CustomWithoutRulesFails ==
    \A w \in Workers :
        /\ (HasWorkspace(w) /\ req[w].rules_config = "custom" /\ ~rulesExists) =>
              /\ proc[w].state = "none"
              /\ Returned(w) =>
                    /\ resp[w].status = 500
                    /\ AllFilesWritten(w) => resp[w].detail = ConfigErrorDetail
        /\ (HasWorkspace(w) /\ req[w].rules_config = "auto"
                /\ "detail" \in DOMAIN resp[w]) =>
              resp[w].detail # ConfigErrorDetail

\* a custom request wrote its files and failed on the missing rules.yml
C14_Witness ==
    \E w \in Workers :
        /\ Returned(w) /\ HasWorkspace(w)
        /\ req[w].rules_config = "custom" /\ ~rulesExists
        /\ created[w] # {}
        /\ resp[w].status = 500 /\ resp[w].detail = ConfigErrorDetail


\* C17: when the engine runs past its timeout, the spawned process has been
\* killed before the request returns, no engine process is running once the
\* response is returned, and the workspace is released only after that.
C17_TimeoutKillsEngine ==
    \A w \in Workers :
        /\ resp[w].status = 504 => proc[w].state = "killed"
        /\ released[w] # "no" => proc[w].state # "running"
        /\ Returned(w) => proc[w].state # "running"

\* a timed-out request has returned: engine killed, workspace released
C17_Witness ==
    \E w \in Workers :
        /\ Returned(w)
        /\ resp[w].status = 504
        /\ proc[w].state = "killed"
        /\ released[w] = "ok"

\* C18: releasing the workspace never changes the outcome of the request:
\* the response after the finally clause is the one computed before it,
\* whether the deletion succeeded or failed.
C18_ReleaseKeepsOutcome ==
    [][\A w \in Workers : pc[w] = "cleanup" => resp'[w] = resp[w]]_vars

\* a successful response was returned although the deletion failed
C18_Witness ==
    \E w \in Workers :
        /\ Returned(w)
        /\ released[w] = "failed"
        /\ resp[w].status = 200
        /\ Len(resp[w].findings) >= 1


\* the version query failed: executable missing, timed out, or the engine
\* exited with a failure code
VersionQueryFailed(run) ==
    \/ run.kind \in {"missing", "timeout"}
    \/ run.kind = "exited" /\ run.returncode # 0

\* C15: the health operation always answers status ok, and whenever the
\* version query failed (executable missing, timeout, failure exit code) the
\* reported engine version is the literal string "unknown".
C15_HealthVersionUnknownOnFailure ==
    health.pc = "done" =>
        /\ health.resp.status = "ok"
        /\ VersionQueryFailed(health.run) =>
               health.resp.semgrep_version = "unknown"


\* the request of w is in flight and owns its workspace: mkdtemp has
\* returned and rmtree has not come to the end yet
Holds(w) ==
    pc[w] \in {"write", "open", "put", "rules", "spawn", "engine", "cleanup"}

\* C16: under every interleaving, two in-flight requests never hold the
\* same workspace directory, and the workspace of an in-flight request
\* exists for as long as the request holds it: no release by another request
\* removes it.
C16_WorkspacesDistinct ==
    \A w \in Workers :
        Holds(w) =>
            /\ Root(w) \in fs.dirs
            /\ \A v \in Workers \ {w} : Holds(v) => tmpdir[v] # tmpdir[w]

\* two requests are in flight at once, one is in the middle of removing its
\* workspace while the other has its file in place and its engine running
C16_Witness ==
    \E w \in Workers : \E v \in Workers \ {w} :
        /\ pc[w] = "cleanup"
        /\ rm[w] # << >>
        /\ pc[v] = "engine"
        /\ tmpdir[w] # tmpdir[v]
        /\ Root(v) \o <<"lib", "b.py">> \in DOMAIN fs.files

\* the workspace tree of w is exactly the file set of its request: every
\* relative path names a file inside the workspace that holds the content of
\* the last record with that path, and every file under the root is named by
\* a record
TreeExact(w) ==
    LET files == req[w].files
        At(i) == Collapse(Root(w) \o Parts(files[i].path), << >>)
        Last(i) == CHOOSE j \in 1..Len(files) :
                       /\ files[j].path = files[i].path
                       /\ \A k \in 1..Len(files) :
                              files[k].path = files[i].path => k <= j
    IN /\ \A i \in 1..Len(files) :
              ~IsAbsolute(files[i].path) =>
                  /\ IsPrefix(Root(w), At(i))
                  /\ At(i) \in DOMAIN fs.files
                  /\ Encodable(files[Last(i)].content)
                  /\ fs.files[At(i)] = Encode(files[Last(i)].content)
       /\ \A p \in DOMAIN fs.files :
              IsPrefix(Root(w), p) => \E i \in 1..Len(files) : p = At(i)

\* C19: at the step that invokes the engine for a request, the workspace
\* tree of the request reflects exactly its input file set (last record
\* wins, no file that no record names), also while other requests run.
C19_TreeExactAtInvocation ==
    [][\A w \in Workers :
           (pc[w] = "spawn" /\ proc'[w].state = "running") => TreeExact(w)]_vars

====
